---- MODULE Spec2Model ----
(***************************************************************************)
(* VisionLab: the WebGL pipeline engine (utils/webgl.ts) driven by the     *)
(* App component's render loop and pipeline editor.                        *)
(*                                                                         *)
(* Pixels are not enumerated.  The content of a texture is a symbolic      *)
(* value [frame, hist]: the frame that was uploaded and the sequence of    *)
(* per-pass operations applied to it since.  Every draw goes through       *)
(* VERTEX_SHADER, which mirrors v_texCoord.y, so every pass contributes a  *)
(* vertical flip to hist; two adjacent flips cancel.  hist = << >> reads   *)
(* "row r of the buffer is row r of the frame, top row first".             *)
(***************************************************************************)
EXTENDS Integers, Sequences, FiniteSets, TLC

\* ------------------------------------------------------------------ bounds
\* Number of addNode calls in one behaviour (ids are node-<Date.now()>).
MaxAdds == 1
\* Number of distinct user images besides SAMPLE_IMAGE_URL.
MaxUploads == 2
\* Number of animation-frame callbacks that may be pending at once.
MaxQueue == 2
\* Number of user-interface events (edits, uploads) in one behaviour.
MaxEvents == 3

\* ------------------------------------------------------- program constants
PROBE_SIZE == 10
\* DEFAULT_MOTION_THRESHOLD = 0.05, kept in hundredths.
DEFAULT_MOTION_THRESHOLD == 5

\* ------------------------------------------------------------ shader texts
PASSTHROUGH_FRAGMENT == "PASSTHROUGH_FRAGMENT"
KERNEL_FRAGMENT == "KERNEL_FRAGMENT"
MORPHOLOGY_FRAGMENT == "MORPHOLOGY_FRAGMENT"
BIT_PLANE_FRAGMENT == "BIT_PLANE_FRAGMENT"
MOTION_HEATMAP_FRAGMENT == "MOTION_HEATMAP_FRAGMENT"
DEFAULT_CUSTOM_SHADER == "DEFAULT_CUSTOM_SHADER"
\* A text typed into the GLSL editor that the driver rejects.
BROKEN_SHADER == "BROKEN_SHADER"

\* What gl.compileShader / gl.linkProgram answer for a fragment text.  The
\* shipped shader texts are valid GLSL ES 1.0; only user text can fail.
Compiles(fs) == fs # BROKEN_SHADER

\* ---------------------------------------------------------------- kernels
\* KERNELS[name].matrix.length
KernelLength(name) ==
  CASE name = "gaussianBlur5" -> 25
    [] name = "" -> 0
    [] OTHER -> 9

\* 1 / (KERNELS[name].factor || 1)
KernelWeightOf(name) ==
  CASE name = "gaussianBlur3" -> 16
    [] name = "gaussianBlur5" -> 256
    [] OTHER -> 1

\* ------------------------------------------------------------ pipeline data
BaseKernelId == 0
MotionHeatmapId == -1

\* A FilterNode.  An optional parameter that is undefined is "" or 0, which
\* is how every use in the engine (x || default, && x) treats it.
FilterNode(id, type, active, km, kw, mt, mr, bp, cs, th) ==
  [id |-> id, type |-> type, active |-> active,
   kernelMatrix |-> km, kernelWeight |-> kw,
   morphType |-> mt, morphRadius |-> mr,
   bitPlane |-> bp, customSource |-> cs, motionThreshold |-> th]

\* useState initial pipeline: one active Gaussian blur.
InitialPipeline ==
  << FilterNode(BaseKernelId, "KERNEL", TRUE, "gaussianBlur3",
                KernelWeightOf("gaussianBlur3"), "", 0, 0, "", 0) >>

\* The node the motionHeatmapEnabled effect appends.
MotionHeatmapNode ==
  FilterNode(MotionHeatmapId, "MOTION_HEATMAP", TRUE, "", 0, "", 0, 0, "",
             DEFAULT_MOTION_THRESHOLD)

\* The node addNode builds: every parameter gets its default.
NewNode(id, type) ==
  FilterNode(id, type, TRUE, "identity", 1, "DILATION", 1, 8,
             DEFAULT_CUSTOM_SHADER, DEFAULT_MOTION_THRESHOLD)

\* --------------------------------------------------------- texture content
FlipOp == [prog |-> "flipY", k |-> "", n |-> 0, prevFrame |-> 0, prevHist |-> << >>]

\* Zero-filled storage (texImage2D with null data, a cleared drawing buffer).
Blank == [frame |-> 0, hist |-> << >>]

\* Vertical mirror of a content; mirroring twice is the identity.
FlipData(d) ==
  IF d = Blank THEN d
  ELSE IF d.hist # << >> /\ d.hist[Len(d.hist)] = FlipOp
       THEN [d EXCEPT !.hist = SubSeq(d.hist, 1, Len(d.hist) - 1)]
       ELSE [d EXCEPT !.hist = Append(d.hist, FlipOp)]

\* A fragment program other than the pass-through, run on content d.
ApplyOp(d, op) == [d EXCEPT !.hist = Append(d.hist, op)]

TexNames == {"source", "pp0", "pp1", "prevRaw"}
PingPong(i) == IF i = 0 THEN "pp0" ELSE "pp1"

\* gl.createTexture(): a texture object without storage.
NoStorage == [w |-> 0, h |-> 0, data |-> Blank]

\* What texture2D returns for texture t of engine e.
Sample(e, t) == e.tex[t].data

\* ------------------------------------------------------------------ engine
\* new WebGLEngine(canvas): objects created, nothing allocated, empty cache.
NewEngine ==
  [width |-> 0, height |-> 0,
   tex |-> [t \in TexNames |-> NoStorage],
   canvas |-> [w |-> 0, h |-> 0, data |-> Blank],
   programCache |-> << >>]

\* initTextures: the source, both ping-pong and the previous-raw-frame
\* textures get fresh zero-filled storage of width x height.
InitTextures(e, width, height) ==
  [e EXCEPT !.tex = [t \in TexNames |->
                       [w |-> width, h |-> height, data |-> Blank]]]

\* resize: early return when nothing changes; else the canvas is resized
\* (which clears its drawing buffer) and every texture is reallocated.
ResizeEitherEqual(e, width, height) ==
  IF e.width = width \/ e.height = height THEN e
  ELSE InitTextures([e EXCEPT !.width = width, !.height = height,
                              !.canvas = [w |-> width, h |-> height, data |-> Blank]],
                    width, height)

Resize(e, width, height) ==
  IF e.width = width /\ e.height = height THEN e
  ELSE InitTextures([e EXCEPT !.width = width, !.height = height,
                              !.canvas = [w |-> width, h |-> height, data |-> Blank]],
                    width, height)

\* createShader x 2 + linkProgram: the program object and its LINK_STATUS.
CompileAndLink(fsSource) == [fs |-> fsSource, linked |-> Compiles(fsSource)]

HasProgram(cache, fsSource) == fsSource \in DOMAIN cache

\* getProgram: cache hit, or compile; a success is cached under its source,
\* a failure is logged and answered by getProgram(PASSTHROUGH_FRAGMENT).
\* Result: the program returned, the cache afterwards, and the sources the
\* call compiled.
RECURSIVE GetProgramCachingFallback(_, _)
GetProgramCachingFallback(cache, fsSource) ==
  IF HasProgram(cache, fsSource)
  THEN [program |-> cache[fsSource], cache |-> cache, compiled |-> {}]
  ELSE LET p == CompileAndLink(fsSource) IN
       IF p.linked
       THEN [program |-> p, cache |-> (fsSource :> p) @@ cache,
             compiled |-> {fsSource}]
       ELSE LET fb == GetProgramCachingFallback(cache, PASSTHROUGH_FRAGMENT) IN
            [program |-> fb.program, cache |-> (fsSource :> p) @@ fb.cache,
             compiled |-> {fsSource} \cup fb.compiled]

RECURSIVE GetProgram(_, _)
GetProgram(cache, fsSource) ==
  IF HasProgram(cache, fsSource)
  THEN [program |-> cache[fsSource], cache |-> cache, compiled |-> {}]
  ELSE LET p == CompileAndLink(fsSource) IN
       IF p.linked
       THEN [program |-> p, cache |-> (fsSource :> p) @@ cache,
             compiled |-> {fsSource}]
       ELSE LET fb == GetProgram(cache, PASSTHROUGH_FRAGMENT) IN
            [program |-> fb.program, cache |-> fb.cache,
             compiled |-> {fsSource} \cup fb.compiled]

\* loadImage: texImage2D of the element into sourceTexture with
\* UNPACK_FLIP_Y_WEBGL, so texture row 0 is the frame's bottom row.  The
\* texture takes the element's size.
LoadImage(e, frame, w, h) ==
  [e EXCEPT !.tex["source"] =
     [w |-> w, h |-> h, data |-> FlipData([frame |-> frame, hist |-> << >>])]]

\* gl.drawArrays into a framebuffer.  The canvas is always complete; a
\* framebuffer whose texture has no storage is incomplete and the draw is
\* dropped with INVALID_FRAMEBUFFER_OPERATION.
DrawInto(e, dest, data) ==
  IF dest = "canvas" THEN [e EXCEPT !.canvas.data = data]
  ELSE IF e.tex[dest].w = 0 \/ e.tex[dest].h = 0 THEN e
  ELSE [e EXCEPT !.tex[dest].data = data]

NoUniforms == [k |-> "", n |-> 0]

\* Whether a program with these uniforms writes, at every fragment, the
\* texel of u_image it sampled: the pass-through; the 3 x 3 convolution with
\* the identity matrix and weight 1 (frames are opaque, so forcing alpha to
\* 1.0 changes nothing); the motion program when u_prevRawFrame has the
\* content of u_image, since then diff = 0 and diff > u_motionThreshold is
\* false for every threshold >= 0.
PerPixelIdentity(program, input, prev, uniforms) ==
  \/ program.fs = PASSTHROUGH_FRAGMENT
  \/ program.fs = KERNEL_FRAGMENT /\ uniforms.k = "identity" /\ uniforms.n = 1
  \/ program.fs = MOTION_HEATMAP_FRAGMENT /\ prev = input /\ uniforms.n >= 0

\* What a linked program computes from its u_image input (and, for the
\* motion program, u_prevRawFrame), both sampled at the mirrored v_texCoord.
RunProgram(program, input, prev, uniforms) ==
  IF PerPixelIdentity(program, input, prev, uniforms) THEN FlipData(input)
  ELSE ApplyOp(FlipData(input),
               [prog |-> program.fs, k |-> uniforms.k, n |-> uniforms.n,
                prevFrame |-> IF program.fs = MOTION_HEATMAP_FRAGMENT
                              THEN FlipData(prev).frame ELSE 0,
                prevHist |-> IF program.fs = MOTION_HEATMAP_FRAGMENT
                             THEN FlipData(prev).hist ELSE << >>])

\* One entry of the draw log of a renderPipeline call; gp is the result of
\* the getProgram call that chose the draw's program.
DrawRecord(kind, idx, gp, reads, dest, input, prev, uniforms, output) ==
  [kind |-> kind, idx |-> idx, program |-> gp.program.fs,
   compiled |-> gp.compiled, reads |-> reads,
   dest |-> dest, input |-> input, prev |-> prev, uniforms |-> uniforms,
   output |-> output]

\* copyTexture(sourceTexture, destinationTexture, destinationFBO) on the
\* render state r = [eng, log, cur, count].
CopyTexture(r, src, dst) ==
  LET gp == GetProgram(r.eng.programCache, PASSTHROUGH_FRAGMENT)
      input == Sample(r.eng, src)
      out == RunProgram(gp.program, input, Blank, NoUniforms)
  IN [r EXCEPT
        !.eng = DrawInto([r.eng EXCEPT !.programCache = gp.cache], dst, out),
        !.log = Append(r.log, DrawRecord("copy", 0, gp, {src}, dst,
                                         input, Blank, NoUniforms, out))]

\* "Select Shader": the fragment text renderPipeline picks for a node.
SelectShader(node) ==
  IF node.type = "CUSTOM_GLSL" /\ node.customSource # "" THEN node.customSource
  ELSE IF node.type = "MOTION_HEATMAP" THEN MOTION_HEATMAP_FRAGMENT
  ELSE IF node.type = "BIT_PLANE" THEN BIT_PLANE_FRAGMENT
  ELSE IF node.type = "MORPHOLOGY" THEN MORPHOLOGY_FRAGMENT
  ELSE IF node.type = "KERNEL" THEN KERNEL_FRAGMENT
  ELSE PASSTHROUGH_FRAGMENT

\* "Node Specific Uniforms".  u_kernel is float[9]: uniform1fv with a longer
\* array sets the first nine elements, so the kernel is named by its matrix.
NodeUniforms(node) ==
  IF node.type = "KERNEL" /\ node.kernelMatrix # ""
    THEN [k |-> node.kernelMatrix,
          n |-> IF node.kernelWeight # 0 THEN node.kernelWeight ELSE 1]
  ELSE IF node.type = "MORPHOLOGY"
    THEN [k |-> IF node.morphType = "DILATION" THEN "DILATION" ELSE "EROSION",
          n |-> IF node.morphRadius # 0 THEN node.morphRadius ELSE 1]
  ELSE IF node.type = "BIT_PLANE"
    THEN [k |-> "", n |-> IF node.bitPlane # 0 THEN node.bitPlane ELSE 8]
  ELSE IF node.type = "MOTION_HEATMAP"
    THEN [k |-> "", n |-> IF node.motionThreshold # 0 THEN node.motionThreshold
                          ELSE DEFAULT_MOTION_THRESHOLD]
  ELSE IF node.type = "CUSTOM_GLSL" THEN [k |-> node.customSource, n |-> 0]
  ELSE NoUniforms

\* const destIdx = (count + 1) % 2
DestIdxSameBuffer(count) == count % 2
DestIdx(count) == (count + 1) % 2

\* The textures the draw of a node samples: unit 0 holds the pipeline's
\* current texture; the motion stage also binds prevRawTexture on unit 1.
StageReads(node, cur) ==
  IF node.type = "MOTION_HEATMAP" THEN {cur, "prevRaw"} ELSE {cur}

\* One iteration of pipeline.forEach on the render state r.
StageStepIgnoringActive(r, node, idx) ==
  LET dest == PingPong(DestIdx(r.count))
      gp == GetProgram(r.eng.programCache, SelectShader(node))
      input == Sample(r.eng, r.cur)
      prev == IF node.type = "MOTION_HEATMAP" THEN Sample(r.eng, "prevRaw") ELSE Blank
      uniforms == NodeUniforms(node)
      out == RunProgram(gp.program, input, prev, uniforms)
  IN [eng |-> DrawInto([r.eng EXCEPT !.programCache = gp.cache], dest, out),
      log |-> Append(r.log, DrawRecord("stage", idx, gp,
                                       StageReads(node, r.cur), dest,
                                       input, prev, uniforms, out)),
      cur |-> dest,
      count |-> r.count + 1]

StageStep(r, node, idx) ==
  IF ~node.active THEN r
  ELSE LET dest == PingPong(DestIdx(r.count))
           gp == GetProgram(r.eng.programCache, SelectShader(node))
           input == Sample(r.eng, r.cur)
           prev == IF node.type = "MOTION_HEATMAP" THEN Sample(r.eng, "prevRaw") ELSE Blank
           uniforms == NodeUniforms(node)
           out == RunProgram(gp.program, input, prev, uniforms)
       IN [eng |-> DrawInto([r.eng EXCEPT !.programCache = gp.cache], dest, out),
           log |-> Append(r.log, DrawRecord("stage", idx, gp,
                                            StageReads(node, r.cur), dest,
                                            input, prev, uniforms, out)),
           cur |-> dest,
           count |-> r.count + 1]

\* The two copies that open renderPipeline: source -> prevRaw, then
\* source -> pingPong[0], which becomes the current input; count = 0.
BeginRenderWithoutPrevRaw(e) ==
  LET r0 == [eng |-> e, log |-> << >>, cur |-> "source", count |-> 0]
      r2 == CopyTexture(r0, "source", "pp0")
  IN [r2 EXCEPT !.cur = "pp0"]

BeginRender(e) ==
  LET r0 == [eng |-> e, log |-> << >>, cur |-> "source", count |-> 0]
      r1 == CopyTexture(r0, "source", "prevRaw")
      r2 == CopyTexture(r1, "source", "pp0")
  IN [r2 EXCEPT !.cur = "pp0"]

\* pipeline.forEach from position idx on.
RECURSIVE ForEachStage(_, _, _)
ForEachStage(r, pipeline, idx) ==
  IF idx > Len(pipeline) THEN r
  ELSE ForEachStage(StageStep(r, pipeline[idx], idx), pipeline, idx + 1)

\* "FINAL PASS": the current texture drawn to the canvas.
FinalPass(r) ==
  LET gp == GetProgram(r.eng.programCache, PASSTHROUGH_FRAGMENT)
      input == Sample(r.eng, r.cur)
      out == RunProgram(gp.program, input, Blank, NoUniforms)
  IN [r EXCEPT
        !.eng = DrawInto([r.eng EXCEPT !.programCache = gp.cache], "canvas", out),
        !.log = Append(r.log, DrawRecord("present", 0, gp, {r.cur},
                                         "canvas", input, Blank, NoUniforms, out))]

\* renderPipeline(pipeline): the engine afterwards and the draws issued.
RenderPipeline(e, pipeline) == FinalPass(ForEachStage(BeginRender(e), pipeline, 1))

\* getPixels: readPixels returns the drawing buffer bottom row first; the
\* loop writes GPU row r to output row h-1-r.
GetPixelsNoFlip(e) == [w |-> e.canvas.w, h |-> e.canvas.h, data |-> e.canvas.data]
GetPixels(e) ==
  [w |-> e.canvas.w, h |-> e.canvas.h, data |-> FlipData(e.canvas.data)]

\* ------------------------------------------------------------ frame sources
\* Images are numbered: 1 is SAMPLE_IMAGE_URL, the others are user uploads.
NumImages == 1 + MaxUploads
Images == 1 .. NumImages
\* img.width and img.height in abstract units: images 1 and 2 have the same
\* size, later ones differ from them in height, then also in width.
ImgW(i) == 2 + (i \div 4)
ImgH(i) == 1 + (i \div 3)

\* --------------------------------------------------------- pipeline editor
\* prev.map(node => node.id === id ? {...node, params: {...params, ...newParams}} : node)
UpdateNodeParams(prev, id, newParams) ==
  [i \in 1 .. Len(prev) |->
     IF prev[i].id = id THEN newParams @@ prev[i] ELSE prev[i]]

\* prev.map(node => node.id === id ? {...active: !node.params.active} : node)
ToggleNodeActiveMovingToEnd(prev, id) ==
  SelectSeq(prev, LAMBDA n : n.id # id)
    \o [i \in 1 .. Len(SelectSeq(prev, LAMBDA n : n.id = id)) |->
          LET n == SelectSeq(prev, LAMBDA m : m.id = id)[i] IN
            [n EXCEPT !.active = ~n.active]]

ToggleNodeActive(prev, id) ==
  [i \in 1 .. Len(prev) |->
     IF prev[i].id = id THEN [prev[i] EXCEPT !.active = ~prev[i].active]
     ELSE prev[i]]

\* prev.filter(n => n.id !== id)
RemoveNode(prev, id) == SelectSeq(prev, LAMBDA n : n.id # id)

\* [...prev, newNode]
AddNode(prev, id, type) == Append(prev, NewNode(id, type))

HasMotion(prev) == \E i \in 1 .. Len(prev) : prev[i].type = "MOTION_HEATMAP"

\* The updater of the motionHeatmapEnabled effect.
MotionEffect(prev, enabled) ==
  IF enabled /\ ~HasMotion(prev) THEN Append(prev, MotionHeatmapNode)
  ELSE IF ~enabled /\ HasMotion(prev)
       THEN SelectSeq(prev, LAMBDA n : n.type # "MOTION_HEATMAP")
       ELSE prev

NodeIds(p) == {p[i].id : i \in 1 .. Len(p)}

\* What the editor's controls can send.
AddTypes == {"KERNEL", "CUSTOM_GLSL"}
PresetChoices == {"identity", "gaussianBlur5"}
SourceChoices == {DEFAULT_CUSTOM_SHADER, BROKEN_SHADER}

\* ------------------------------------------------------------------- state
VARIABLES
  pipeline,              \* useState pipeline
  motionHeatmapEnabled,  \* useState motionHeatmapEnabled
  isWebcamActive,        \* useState isWebcamActive
  imageSrc,              \* useState imageSrc (an image number)
  loading,               \* Image objects whose onload has not fired yet
  imageObj,              \* imageObjRef.current (0: null)
  eng,                   \* engineRef.current
  raf,                   \* pending requestAnimationFrame callbacks, oldest first
  pixelsRef,             \* pixelsRef.current
  nextId,                \* the next value of Date.now() used for a node id
  events,                \* user-interface events handled so far
  last,                  \* the last renderPipeline call (history)
  rp,                    \* the renderPipeline call in flight
  lab                    \* the CPU image routine or probe being evaluated

vars == << pipeline, motionHeatmapEnabled, isWebcamActive, imageSrc, loading,
           imageObj, eng, raf, pixelsRef, nextId, events, last, rp, lab >>
appVars == << pipeline, motionHeatmapEnabled, isWebcamActive, imageSrc, loading,
              imageObj, eng, raf, pixelsRef, nextId, events, last, rp >>

NoPixels == [w |-> 0, h |-> 0, data |-> Blank]
Idle == [pc |-> "idle"]
\* No image routine is being evaluated.
NoLab == [op |-> "none", done |-> TRUE]

\* A scheduled renderLoop: the values its useCallback closure captured, and
\* whether requestRef.current still holds its request id.
Closure(p, webcam) == [pipeline |-> p, webcam |-> webcam, tracked |-> TRUE]

\* requestRef.current = requestAnimationFrame(renderLoop)
Request(q, c) ==
  Append([i \in 1 .. Len(q) |-> [q[i] EXCEPT !.tracked = FALSE]], c)

\* cancelAnimationFrame(requestRef.current)
Cancel(q) == SelectSeq(q, LAMBDA c : ~c.tracked)

\* State after the component mounted: the engine exists and is unsized, the
\* sample image is still loading, and the pipeline effect requested a frame.
InitApp ==
  /\ pipeline = InitialPipeline
  /\ motionHeatmapEnabled = FALSE
  /\ isWebcamActive = FALSE
  /\ imageSrc = 1
  /\ loading = {1}
  /\ imageObj = 0
  /\ eng = NewEngine
  /\ raf = << Closure(InitialPipeline, FALSE) >>
  /\ pixelsRef = NoPixels
  /\ nextId = 1
  /\ events = 0
  /\ last = [ticks |-> 0, frame |-> 0, prevFrame |-> 0,
             allocated |-> FALSE, loaded |-> FALSE,
             webcam |-> FALSE, pipeline |-> << >>, draws |-> << >>,
             failedBefore |-> {}, failed |-> {}]
  /\ rp = Idle

Init == InitApp /\ lab = NoLab

\* ----------------------------------------------------------- React effects
\* What the effects do after a render in which `pipeline` (and with it the
\* renderLoop callback) changed.  App v4 (part_001): the cleanup of the
\* engine effect cancels requestRef.current, then the pipeline effect
\* requests a frame unless the webcam is on.  App v3 (part_002) has no
\* cleanup.  Every requested callback keeps the closure of its render.
Schedule(v, q, p, webcam) ==
  IF v = 4
  THEN IF ~webcam THEN Request(Cancel(q), Closure(p, webcam)) ELSE Cancel(q)
  ELSE IF ~webcam THEN Request(q, Closure(p, webcam)) ELSE q

\* The array object a running renderPipeline iterates, after an updater of
\* setPipeline ran: map, filter and spread build a new array, so an array
\* held elsewhere keeps its elements.
HeldArrayMutatedInPlace(held, prev, next) == IF held = prev THEN next ELSE held
HeldArray(held, prev, next) == held

\* setPipeline(updater) followed by the render and its effects.
SetPipeline(v, next) ==
  /\ events < MaxEvents
  /\ events' = events + 1
  /\ v = 3 => Len(raf) < MaxQueue
  /\ pipeline' = next
  /\ raf' = Schedule(v, raf, next, isWebcamActive)
  /\ rp' = IF rp.pc = "idle" THEN rp
           ELSE [rp EXCEPT !.pipeline = HeldArray(rp.pipeline, pipeline, next)]
  /\ UNCHANGED << lab, isWebcamActive, imageSrc, loading, imageObj, eng, pixelsRef,
                  last >>

\* ---------------------------------------------------------- editor actions
DoAddNode(v) ==
  \E type \in AddTypes :
    /\ nextId <= MaxAdds
    /\ SetPipeline(v, AddNode(pipeline, nextId, type))
    /\ nextId' = nextId + 1
    /\ UNCHANGED motionHeatmapEnabled

DoToggleNodeActive(v) ==
  \E id \in NodeIds(pipeline) :
    /\ SetPipeline(v, ToggleNodeActive(pipeline, id))
    /\ UNCHANGED << nextId, motionHeatmapEnabled >>

DoRemoveNode(v) ==
  \E id \in NodeIds(pipeline) :
    /\ SetPipeline(v, RemoveNode(pipeline, id))
    /\ UNCHANGED << nextId, motionHeatmapEnabled >>

\* The "Choose Preset..." select of a KERNEL node.
DoSelectPreset(v) ==
  \E i \in 1 .. Len(pipeline), k \in PresetChoices :
    /\ pipeline[i].type = "KERNEL"
    /\ SetPipeline(v, UpdateNodeParams(pipeline, pipeline[i].id,
                        [kernelMatrix |-> k, kernelWeight |-> KernelWeightOf(k)]))
    /\ UNCHANGED << nextId, motionHeatmapEnabled >>

\* CustomKernelLab's onKernelChange on a KERNEL node whose panel is open: the
\* lab's effect sends its grid of nine weights after an edit of a weight
\* and after a render of App (the callback is a new arrow on every render).
\* Whether the panel is open, and when the effect runs relative to the
\* animation frames, is left to the interleaving.
DoKernelLabChange(v) ==
  \E i \in 1 .. Len(pipeline) :
    /\ pipeline[i].type = "KERNEL"
    /\ SetPipeline(v, UpdateNodeParams(pipeline, pipeline[i].id,
                        [kernelMatrix |-> "customGrid", kernelWeight |-> 1]))
    /\ UNCHANGED << nextId, motionHeatmapEnabled >>

\* The textarea of a CUSTOM_GLSL node.
DoEditSource(v) ==
  \E i \in 1 .. Len(pipeline), src \in SourceChoices :
    /\ pipeline[i].type = "CUSTOM_GLSL"
    /\ SetPipeline(v, UpdateNodeParams(pipeline, pipeline[i].id,
                        [customSource |-> src]))
    /\ UNCHANGED << nextId, motionHeatmapEnabled >>

\* The "Reset Pipeline" button: setPipeline([]).
DoResetPipeline(v) ==
  /\ SetPipeline(v, << >>)
  /\ UNCHANGED << nextId, motionHeatmapEnabled >>

\* The Motion Heatmap checkbox and the effect it triggers.  The updater
\* returns prev itself when nothing is to change, and React then skips the
\* render.
DoToggleMotionHeatmap(v) ==
  /\ motionHeatmapEnabled' = ~motionHeatmapEnabled
  /\ LET next == MotionEffect(pipeline, ~motionHeatmapEnabled) IN
       IF next = pipeline
       THEN /\ events < MaxEvents
            /\ events' = events + 1
            /\ UNCHANGED << lab, pipeline, raf, rp, isWebcamActive, imageSrc,
                            loading, imageObj, eng, pixelsRef, last >>
       ELSE SetPipeline(v, next)
  /\ UNCHANGED nextId

Edit(v) ==
  \/ DoAddNode(v)
  \/ DoToggleNodeActive(v)
  \/ DoRemoveNode(v)
  \/ DoSelectPreset(v)
  \/ DoKernelLabChange(v)
  \/ DoEditSource(v)
  \/ DoResetPipeline(v)
  \/ DoToggleMotionHeatmap(v)

\* ------------------------------------------------------------ image source
\* handleImageUpload: the FileReader result becomes imageSrc, and the
\* imageSrc effect starts loading a new Image.  An upload also switches the
\* webcam off, which in v3 changes renderLoop and requests a frame.
DoUpload(v) ==
  \E i \in Images \ {1, imageSrc} :
    /\ rp = Idle
    /\ events < MaxEvents
    /\ events' = events + 1
    /\ v = 3 /\ isWebcamActive => Len(raf) < MaxQueue
    /\ imageSrc' = i
    /\ loading' = loading \cup {i}
    /\ isWebcamActive' = FALSE
    /\ raf' = IF isWebcamActive THEN Schedule(v, raf, pipeline, FALSE) ELSE raf
    /\ UNCHANGED << lab, pipeline, motionHeatmapEnabled, imageObj, eng, pixelsRef,
                    nextId, last, rp >>

\* img.onload: the element becomes imageObjRef.current; the engine is
\* resized to it and the image uploaded.  No frame is requested.
ImageOnLoad ==
  \E i \in loading :
    /\ rp = Idle
    /\ loading' = loading \ {i}
    /\ imageObj' = i
    /\ eng' = LoadImage(Resize(eng, ImgW(i), ImgH(i)), i, ImgW(i), ImgH(i))
    /\ UNCHANGED << lab, pipeline, motionHeatmapEnabled, isWebcamActive, imageSrc,
                    raf, pixelsRef, nextId, events, last, rp >>

\* toggleWebcam of v3, whose <video> element is always mounted.  Switching
\* on requests a frame for the renderLoop of the render in which the webcam
\* was still off; the render that follows requests nothing.  Switching off
\* changes renderLoop and the pipeline effect requests a frame.
DoToggleWebcam(v) ==
  /\ v = 3
  /\ rp = Idle
  /\ events < MaxEvents
  /\ events' = events + 1
  /\ Len(raf) < MaxQueue
  /\ isWebcamActive' = ~isWebcamActive
  /\ raf' = Request(raf, Closure(pipeline, FALSE))
  /\ UNCHANGED << lab, pipeline, motionHeatmapEnabled, imageSrc, loading, imageObj,
                  eng, pixelsRef, nextId, last, rp >>

\* ------------------------------------------------------------- render loop
\* The frame a ready <video> element delivers, numbered after the images.
VideoFrame == NumImages + 1

\* Step 1 of renderLoop for closure c: pick and load the source.  go says
\* whether renderPipeline is reached, loaded whether loadImage ran in this
\* call, cancel whether cancelAnimationFrame(requestRef.current) ran.
\* v4 returns early when the webcam is off and no image has loaded; v3 has
\* no such branch.
LoadSource(v, e, c, img, videoReady) ==
  IF c.webcam /\ videoReady
    THEN [eng |-> LoadImage(Resize(e, ImgW(VideoFrame), ImgH(VideoFrame)),
                            VideoFrame, ImgW(VideoFrame), ImgH(VideoFrame)),
          go |-> TRUE, loaded |-> TRUE, cancel |-> FALSE]
  ELSE IF ~c.webcam /\ img # 0
    THEN IF e.width # ImgW(img) \/ e.height # ImgH(img)
         THEN [eng |-> LoadImage(Resize(e, ImgW(img), ImgH(img)),
                                 img, ImgW(img), ImgH(img)),
               go |-> TRUE, loaded |-> TRUE, cancel |-> FALSE]
         ELSE [eng |-> e, go |-> TRUE, loaded |-> FALSE, cancel |-> FALSE]
  ELSE IF v = 4 /\ ~c.webcam
    THEN [eng |-> e, go |-> FALSE, loaded |-> FALSE, cancel |-> TRUE]
  ELSE [eng |-> e, go |-> TRUE, loaded |-> FALSE, cancel |-> FALSE]

Min(a, b) == IF a < b THEN a ELSE b

\* The sources whose compilation failed during the draws of a log.
FailedIn(log) ==
  UNION {{src \in log[i].compiled : ~Compiles(src)} : i \in 1 .. Len(log)}

\* The record of a finished renderPipeline call.
CallRecord(e, c, loaded, log) ==
  [ticks |-> Min(last.ticks + 1, 2),
   failedBefore |-> last.failed,
   failed |-> last.failed \cup FailedIn(log),
   frame |-> e.tex["source"].data.frame,
   prevFrame |-> last.frame,
   allocated |-> e.tex["source"].w > 0 /\ e.tex["source"].h > 0,
   loaded |-> loaded, webcam |-> c.webcam,
   pipeline |-> c.pipeline, draws |-> log]

\* One animation frame: the oldest pending renderLoop runs to completion.
Tick(v) ==
  /\ rp = Idle
  /\ raf # << >>
  /\ \E videoReady \in (IF isWebcamActive THEN BOOLEAN ELSE {FALSE}) :
       LET c == Head(raf)
           s == LoadSource(v, eng, c, imageObj, videoReady)
           r == RenderPipeline(s.eng, c.pipeline)
       IN IF s.go
          THEN /\ eng' = r.eng
               /\ pixelsRef' = GetPixels(r.eng)
               /\ last' = CallRecord(s.eng, c, s.loaded, r.log)
               /\ raf' = IF c.webcam THEN Request(Tail(raf), c) ELSE Tail(raf)
          ELSE /\ raf' = IF s.cancel THEN Cancel(Tail(raf)) ELSE Tail(raf)
               /\ UNCHANGED << eng, pixelsRef, last >>
  /\ UNCHANGED << lab, pipeline, motionHeatmapEnabled, isWebcamActive, imageSrc,
                  loading, imageObj, nextId, events, rp >>

\* -------------------------------------------------- render loop, stepwise
\* The same renderLoop cut at the iterations of pipeline.forEach, so that
\* editor events can be placed between two stages of one call.  JavaScript
\* runs a callback to completion, so this allows more than a browser does.
\* rp keeps the array being iterated (pipeline), the array as it was when
\* the call started (snapshot), the engine the call started on (start) and
\* renderPipeline's locals.
RenderState == [eng |-> eng, log |-> rp.log, cur |-> rp.cur, count |-> rp.count]

TickBegin(v) ==
  /\ rp = Idle
  /\ raf # << >>
  /\ LET c == Head(raf)
         s == LoadSource(v, eng, c, imageObj, FALSE)
         r == BeginRender(s.eng)
     IN IF s.go
        THEN /\ eng' = r.eng
             /\ rp' = [pc |-> "stages", idx |-> 1, pipeline |-> c.pipeline,
                       snapshot |-> c.pipeline, start |-> s.eng,
                       webcam |-> c.webcam, loaded |-> s.loaded,
                       log |-> r.log, cur |-> r.cur, count |-> r.count]
             /\ raf' = Tail(raf)
        ELSE /\ raf' = IF s.cancel THEN Cancel(Tail(raf)) ELSE Tail(raf)
             /\ UNCHANGED << eng, rp >>
  /\ UNCHANGED << lab, pipeline, motionHeatmapEnabled, isWebcamActive, imageSrc,
                  loading, imageObj, pixelsRef, nextId, events, last >>

TickStage ==
  /\ rp.pc = "stages"
  /\ rp.idx <= Len(rp.pipeline)
  /\ LET r == StageStep(RenderState, rp.pipeline[rp.idx], rp.idx) IN
       /\ eng' = r.eng
       /\ rp' = [rp EXCEPT !.idx = rp.idx + 1, !.log = r.log, !.cur = r.cur,
                           !.count = r.count]
  /\ UNCHANGED << lab, pipeline, motionHeatmapEnabled, isWebcamActive, imageSrc,
                  loading, imageObj, raf, pixelsRef, nextId, events, last >>

TickEnd ==
  /\ rp.pc = "stages"
  /\ rp.idx > Len(rp.pipeline)
  /\ LET r == FinalPass(RenderState)
         c == [Closure(rp.pipeline, rp.webcam) EXCEPT !.tracked = TRUE]
     IN /\ eng' = r.eng
        /\ pixelsRef' = GetPixels(r.eng)
        /\ last' = CallRecord(rp.start, c, rp.loaded, r.log)
        /\ raf' = IF rp.webcam THEN Request(raf, c) ELSE raf
  /\ rp' = Idle
  /\ UNCHANGED << lab, pipeline, motionHeatmapEnabled, isWebcamActive, imageSrc,
                  loading, imageObj, nextId, events >>


\* ------------------------------------------------------- pixel-level data
\* Number of colours a drawn test image may use.
NumColours == 2
\* Image widths and heights drawn.
Sides == 1 .. 3
\* Largest morphology radius drawn.
MaxRadius == 2

\* RGBA bytes of the colours test images are drawn from.
Colour(i) ==
  CASE i = 1 -> << 0, 0, 0, 255 >>
    [] i = 2 -> << 255, 255, 255, 255 >>
    [] i = 3 -> << 10, 20, 30, 255 >>
    [] OTHER -> << (37 * i) % 256, (91 * i) % 256, (53 * i) % 256, 255 >>

\* An ImageData: width, height and the flat RGBA byte array.  Byte offset
\* off of the code is element off + 1 of data.
ImageData(w, h, data) == [width |-> w, height |-> h, data |-> data]
At(data, off) == data[off + 1]

\* The image whose pixel k (row-major) has colour paint[k].
Painted(w, h, paint) ==
  ImageData(w, h, [k \in 1 .. w * h * 4 |->
                     Colour(paint[((k - 1) \div 4) + 1])[((k - 1) % 4) + 1]])

\* The image of one colour given by its bytes.
Uniform(w, h, c) ==
  ImageData(w, h, [k \in 1 .. w * h * 4 |-> c[((k - 1) % 4) + 1]])

\* Largest number of pixels of an image painted pixel by pixel.
MaxArea == 6

\* Every painting of the images of at most MaxArea pixels, and every painting
\* in horizontal bands of the others.
ArbImages ==
  UNION {IF w * h <= MaxArea
         THEN {Painted(w, h, paint) : paint \in [1 .. w * h -> 1 .. NumColours]}
         ELSE {Painted(w, h, [k \in 1 .. w * h |-> band[((k - 1) \div w) + 1]]) :
                 band \in [1 .. h -> 1 .. NumColours]} :
           w \in Sides, h \in Sides}

\* ------------------------------------------------- getPixels, byte by byte
\* flipped.set(pixels.subarray(srcRow, srcRow + rowBytes), dstRow)
SetRow(flipped, pixels, srcRow, dstRow, rowBytes) ==
  [k \in 1 .. Len(flipped) |->
     IF k - 1 >= dstRow /\ k - 1 < dstRow + rowBytes
     THEN At(pixels, srcRow + (k - 1 - dstRow))
     ELSE flipped[k]]

\* The loop of getPixels from row on: GPU row `row` goes to row h - row - 1.
RECURSIVE FlipLoop(_, _, _, _, _)
FlipLoop(pixels, flipped, w, h, row) ==
  IF row >= h THEN flipped
  ELSE FlipLoop(pixels,
                SetRow(flipped, pixels, row * (w * 4), (h - row - 1) * (w * 4), w * 4),
                w, h, row + 1)

\* getPixels applied to what readPixels returned.
FlipRowsWholeBuffer(pixels, w, h) ==
  [k \in 1 .. w * h * 4 |-> pixels[w * h * 4 + 1 - k]]
FlipRows(pixels, w, h) ==
  FlipLoop(pixels, [k \in 1 .. w * h * 4 |-> 0], w, h, 0)

\* ------------------------------------------------------ routines evaluated
\* A routine waiting to be evaluated on an input.
Job(op, img, arg) == [op |-> op, img |-> img, arg |-> arg, done |-> FALSE]

GetPixelsJobs == {Job("getPixels", img, 0) : img \in ArbImages}

LabGetPixels ==
  /\ lab.op = "getPixels"
  /\ ~lab.done
  /\ lab' = [op |-> lab.op, img |-> lab.img, arg |-> lab.arg, done |-> TRUE,
             out |-> FlipRows(lab.img.data, lab.img.width, lab.img.height)]
  /\ UNCHANGED appVars

\* ------------------------------------------- motion fragment, one texel
\* dot(px.rgb, vec3(0.299, 0.587, 0.114)) in units of 1 / 255000.
Gray1000(px) == 299 * px[1] + 587 * px[2] + 114 * px[3]
Abs(x) == IF x < 0 THEN 0 - x ELSE x

\* MOTION_HEATMAP_FRAGMENT on the texels sampled from u_image and
\* u_prevRawFrame; threshold in hundredths.  The blended colour is kept as
\* a tagged value.
MotionFragment(currentFilteredPx, prevRawPx, threshold) ==
  IF 100 * Abs(Gray1000(currentFilteredPx) - Gray1000(prevRawPx)) > threshold * 255000
  THEN [mix |-> TRUE, px |-> currentFilteredPx]
  ELSE [mix |-> FALSE, px |-> currentFilteredPx]

\* u_motionThreshold as renderPipeline sets it.
MotionThresholdUniform(motionThreshold) ==
  IF motionThreshold # 0 THEN motionThreshold ELSE DEFAULT_MOTION_THRESHOLD

MotionJobs ==
  {Job("motion", << Colour(i), Colour(j) >>, th) :
     i \in 1 .. NumColours + 1, j \in 1 .. NumColours + 1, th \in {0, 5, 100}}

LabMotion ==
  /\ lab.op = "motion"
  /\ ~lab.done
  /\ lab' = [op |-> lab.op, img |-> lab.img, arg |-> lab.arg, done |-> TRUE,
             out |-> MotionFragment(lab.img[1], lab.img[2],
                                    MotionThresholdUniform(lab.arg))]
  /\ UNCHANGED appVars

\* ---------------------------------------------------------------- convolve
\* KERNELS[name]: matrix, width and factor as the fraction factorNum /
\* factorDen (kernel.factor ?? 1); no preset has a bias (kernel.bias ?? 0).
KernelRecord(matrix, width, factorDen) ==
  [matrix |-> matrix, width |-> width, height |-> width,
   factorNum |-> 1, factorDen |-> factorDen, bias |-> 0]

KERNELS(name) ==
  CASE name = "identity" -> KernelRecord(<< 0, 0, 0, 0, 1, 0, 0, 0, 0 >>, 3, 1)
    [] name = "gaussianBlur3" -> KernelRecord(<< 1, 2, 1, 2, 4, 2, 1, 2, 1 >>, 3, 16)
    [] name = "gaussianBlur5" ->
         KernelRecord(<< 1, 4, 6, 4, 1, 4, 16, 24, 16, 4, 6, 24, 36, 24, 6,
                         4, 16, 24, 16, 4, 1, 4, 6, 4, 1 >>, 5, 256)
    [] name = "sharpen" -> KernelRecord(<< 0, -1, 0, -1, 5, -1, 0, -1, 0 >>, 3, 1)
    [] name = "laplacian" -> KernelRecord(<< 0, 1, 0, 1, -4, 1, 0, 1, 0 >>, 3, 1)
    [] name = "sobelX" -> KernelRecord(<< -1, 0, 1, -2, 0, 2, -1, 0, 1 >>, 3, 1)
    [] name = "sobelY" -> KernelRecord(<< -1, -2, -1, 0, 0, 0, 1, 2, 1 >>, 3, 1)
    [] name = "emboss" -> KernelRecord(<< -2, -1, 0, -1, 1, 1, 0, 1, 2 >>, 3, 1)

\* f[0] + ... + f[n - 1]
RECURSIVE SumTo(_, _)
SumTo(f, n) == IF n = 0 THEN 0 ELSE f[n - 1] + SumTo(f, n - 1)

\* Storing the number num / den (den > 0) in a Uint8ClampedArray after
\* Math.min(255, Math.max(0, .)): clamped, then rounded to the nearest
\* integer, a tie going to the even one.
ToUint8Clamped(num, den) ==
  IF num <= 0 THEN 0
  ELSE IF num >= 255 * den THEN 255
  ELSE LET q == num \div den
           rem == num % den
       IN IF 2 * rem < den THEN q
          ELSE IF 2 * rem > den THEN q + 1
          ELSE IF q % 2 = 0 THEN q ELSE q + 1

\* The tap loops of convolve for output pixel (x, y) and channel ch: taps
\* outside the image contribute nothing.
TapSum(source, kernel, halfSide, x, y, ch) ==
  LET side == kernel.width
      sw == source.width
      sh == source.height
      tap == [t \in 0 .. side * side - 1 |->
                LET cy == t \div side
                    cx == t % side
                    scy == y + cy - halfSide
                    scx == x + cx - halfSide
                IN IF scy >= 0 /\ scy < sh /\ scx >= 0 /\ scx < sw
                   THEN At(source.data, (scy * sw + scx) * 4 + ch)
                        * kernel.matrix[cy * side + cx + 1]
                   ELSE 0]
  IN SumTo(tap, side * side)

ConvolveWith(source, kernel, halfSide) ==
  ImageData(source.width, source.height,
    [k \in 1 .. source.width * source.height * 4 |->
       LET ch == (k - 1) % 4
           x == ((k - 1) \div 4) % source.width
           y == ((k - 1) \div 4) \div source.width
       IN IF ch = 3 THEN 255
          ELSE ToUint8Clamped(
                 TapSum(source, kernel, halfSide, x, y, ch) * kernel.factorNum
                   + kernel.bias * kernel.factorDen,
                 kernel.factorDen)])

\* convolve(source, kernel), with halfSide = Math.floor(side / 2).
ConvolveUncentred(source, kernel) == ConvolveWith(source, kernel, 0)
Convolve(source, kernel) == ConvolveWith(source, kernel, kernel.width \div 2)

\* Colours given by their bytes: an opaque and a half-transparent one.
Opaque102030 == << 10, 20, 30, 255 >>
Translucent102030 == << 10, 20, 30, 128 >>

UniformImages ==
  {Uniform(w, h, c) : w \in Sides, h \in Sides,
                      c \in {Opaque102030, Translucent102030}}

ConvolveJobs ==
  {Job("convolve", img, "identity") : img \in ArbImages \cup UniformImages}
    \cup {Job("convolve", img, name) :
            img \in {Uniform(w, h, Colour(c)) : w \in Sides, h \in Sides,
                                                c \in 1 .. NumColours},
            name \in {"gaussianBlur3", "gaussianBlur5"}}

LabConvolve ==
  /\ lab.op = "convolve"
  /\ ~lab.done
  /\ lab' = [op |-> lab.op, img |-> lab.img, arg |-> lab.arg, done |-> TRUE,
             out |-> Convolve(lab.img, KERNELS(lab.arg))]
  /\ UNCHANGED appVars

\* --------------------------------------------------------- applyMorphology
MinOf(S) == CHOOSE m \in S : \A v \in S : m <= v
MaxOf(S) == CHOOSE m \in S : \A v \in S : m >= v

\* The values of channel ch the window loops of applyMorphology visit for
\* output pixel (x, y): the pixels within `half` of it that are inside the
\* image.
WindowValues(source, half, x, y, ch) ==
  {At(source.data, (py * source.width + px) * 4 + ch) :
     << px, py >> \in {q \in ((x - half) .. (x + half)) \X ((y - half) .. (y + half)) :
                        /\ q[1] >= 0 /\ q[1] < source.width
                        /\ q[2] >= 0 /\ q[2] < source.height}}

ApplyMorphologyWith(source, type, half) ==
  ImageData(source.width, source.height,
    [k \in 1 .. source.width * source.height * 4 |->
       LET ch == (k - 1) % 4
           x == ((k - 1) \div 4) % source.width
           y == ((k - 1) \div 4) \div source.width
       IN IF ch = 3 THEN 255
          ELSE IF type = "EROSION"
               THEN MinOf({255} \cup WindowValues(source, half, x, y, ch))
               ELSE MaxOf({0} \cup WindowValues(source, half, x, y, ch))])

\* applyMorphology(source, type, radius), with half = radius.
ApplyMorphologyCentreOnly(source, type, radius) == ApplyMorphologyWith(source, type, 0)
ApplyMorphology(source, type, radius) == ApplyMorphologyWith(source, type, radius)

\* Black images with at most one pixel of another drawn colour.
DotImages ==
  UNION {{Painted(w, h, [k \in 1 .. w * h |-> IF k = p THEN c ELSE 1]) :
            p \in 0 .. w * h, c \in 2 .. NumColours} :
           w \in Sides, h \in Sides}

MorphologyJobs ==
  {Job("morphology", img, << type, radius >>) :
     img \in DotImages, type \in {"EROSION", "DILATION"}, radius \in 1 .. MaxRadius}

LabMorphology ==
  /\ lab.op = "morphology"
  /\ ~lab.done
  /\ lab' = [op |-> lab.op, img |-> lab.img, arg |-> lab.arg, done |-> TRUE,
             out |-> ApplyMorphology(lab.img, lab.arg[1], lab.arg[2])]
  /\ UNCHANGED appVars

\* ------------------------------------------------------------ sliceBitPlane
\* The colours whose luma is evaluated below, by their bytes.
LumaColours ==
  {<< 0, 0, 0, 255 >>, << 255, 255, 255, 255 >>, << 10, 20, 30, 255 >>,
   << 10, 20, 30, 128 >>, << 127, 127, 127, 255 >>, << 128, 128, 128, 255 >>,
   << 129, 128, 128, 255 >>, << 8, 200, 72, 255 >>, << 200, 100, 50, 255 >>,
   << 0, 255, 0, 255 >>, << 255, 0, 0, 255 >>, << 0, 36, 12, 255 >>,
   << 0, 218, 0, 255 >>}

\* 0.299 * R + 0.587 * G + 0.114 * B is evaluated in IEEE-754 doubles, left
\* to right.  The exact value is Gray1000 / 1000; the double differs from it
\* by less than 1e-12.  These are the R, G, B among LumaColours for which
\* the double is below the exact value when that value is an integer or an
\* integer and a half: 126.99999999999999, 127.99999999999999,
\* 127.99999999999999 and 22.499999999999996.
DoubleFallsBelow ==
  {<< 127, 127, 127 >>, << 128, 128, 128 >>, << 8, 200, 72 >>, << 0, 36, 12 >>}

\* Math.floor(gray)
FloorGray(px) ==
  IF Gray1000(px) % 1000 = 0 /\ << px[1], px[2], px[3] >> \in DoubleFallsBelow
  THEN (Gray1000(px) \div 1000) - 1
  ELSE Gray1000(px) \div 1000

\* Math.round(gray)
RoundGray(px) ==
  IF Gray1000(px) % 1000 = 500 /\ << px[1], px[2], px[3] >> \in DoubleFallsBelow
  THEN Gray1000(px) \div 1000
  ELSE (Gray1000(px) + 500) \div 1000

RECURSIVE Pow2(_)
Pow2(n) == IF n = 0 THEN 1 ELSE 2 * Pow2(n - 1)

\* Pixel p (0-based) of a byte array.
PixelAt(data, p) ==
  << At(data, 4 * p), At(data, 4 * p + 1), At(data, 4 * p + 2), At(data, 4 * p + 3) >>

\* sliceBitPlane(source, bit) for bit in 1..8: mask = 1 << (bit - 1).
SliceBitPlane(source, bit) ==
  ImageData(source.width, source.height,
    [k \in 1 .. Len(source.data) |->
       IF (k - 1) % 4 = 3 THEN 255
       ELSE IF (FloorGray(PixelAt(source.data, (k - 1) \div 4)) \div Pow2(bit - 1)) % 2 = 1
            THEN 255 ELSE 0])

\* Images of two pixels side by side.
PairImages ==
  {ImageData(2, 1, a \o b) : a \in LumaColours, b \in LumaColours}

BitPlaneJobs == {Job("bitPlane", img, bit) : img \in PairImages, bit \in 1 .. 8}

LabSliceBitPlane ==
  /\ lab.op = "bitPlane"
  /\ ~lab.done
  /\ lab' = [op |-> lab.op, img |-> lab.img, arg |-> lab.arg, done |-> TRUE,
             out |-> SliceBitPlane(lab.img, lab.arg)]
  /\ UNCHANGED appVars

\* --------------------------------------------------------- computeHistogram
Bins == 0 .. 255
EmptyHistogram == [v \in Bins |-> 0]

\* The first loop of computeHistogram from pixel p on; h holds r, g, b, l.
RECURSIVE CountLoop(_, _, _)
CountLoop(data, p, h) ==
  IF 4 * p >= Len(data) THEN h
  ELSE LET px == PixelAt(data, p) IN
       CountLoop(data, p + 1,
                 [r |-> [h.r EXCEPT ![px[1]] = @ + 1],
                  g |-> [h.g EXCEPT ![px[2]] = @ + 1],
                  b |-> [h.b EXCEPT ![px[3]] = @ + 1],
                  l |-> [h.l EXCEPT ![RoundGray(px)] = @ + 1]])

\* The second loop: the running maximum, from 0, over every bin of the given
\* histograms.
MaxLoop(hs) == MaxOf({0} \cup {hs[n][i] : n \in 1 .. Len(hs), i \in Bins})

\* computeHistogram(imageData)
ComputeHistogramMaxOfRGB(imageData) ==
  LET h == CountLoop(imageData.data, 0,
                     [r |-> EmptyHistogram, g |-> EmptyHistogram,
                      b |-> EmptyHistogram, l |-> EmptyHistogram])
  IN [r |-> h.r, g |-> h.g, b |-> h.b, l |-> h.l,
      max |-> MaxLoop(<< h.r, h.g, h.b >>)]

ComputeHistogram(imageData) ==
  LET h == CountLoop(imageData.data, 0,
                     [r |-> EmptyHistogram, g |-> EmptyHistogram,
                      b |-> EmptyHistogram, l |-> EmptyHistogram])
  IN [r |-> h.r, g |-> h.g, b |-> h.b, l |-> h.l,
      max |-> MaxLoop(<< h.r, h.g, h.b, h.l >>)]

HistogramJobs ==
  {Job("histogram", img, 0) : img \in DotImages \cup UniformImages \cup PairImages}

LabComputeHistogram ==
  /\ lab.op = "histogram"
  /\ ~lab.done
  /\ lab' = [op |-> lab.op, img |-> lab.img, arg |-> lab.arg, done |-> TRUE,
             out |-> ComputeHistogram(lab.img)]
  /\ UNCHANGED appVars

\* --------------------------------------------------------------- pixel probe
\* The cells of the probe grid.  The readback is symbolic, so the pixel read
\* at linear position q of a buffer is named by the buffer's content and the
\* column and row q has in the buffer; a read past the end of the
\* Uint8Array gives undefined for all four channels.
ZeroPixel == [kind |-> "zero", data |-> Blank, x |-> 0, y |-> 0]
UndefinedPixel == [kind |-> "undefined", data |-> Blank, x |-> 0, y |-> 0]
Texel(pixels, x, y) == [kind |-> "texel", data |-> pixels.data, x |-> x, y |-> y]

\* { r: pixels[idx], g: pixels[idx+1], b: pixels[idx+2], a: pixels[idx+3] }
\* for idx = 4 * q
ReadPixel(pixels, q) ==
  IF q < pixels.w * pixels.h THEN Texel(pixels, q % pixels.w, q \div pixels.w)
  ELSE UndefinedPixel

\* One cell of the probe: w and h are the engine's, pixels is pixelsRef.
ProbeCell(pixels, w, h, px, py) ==
  IF px >= 0 /\ px < w /\ py >= 0 /\ py < h
  THEN ReadPixel(pixels, py * w + px)
  ELSE ZeroPixel

\* The grid handleMouseMove builds for canvas position (x, y): row i, column
\* j, both counted from 0.
ProbePixels(pixels, w, h, x, y) ==
  LET half == PROBE_SIZE \div 2 IN
    [i \in 0 .. PROBE_SIZE - 1 |->
       [j \in 0 .. PROBE_SIZE - 1 |->
          ProbeCell(pixels, w, h, x + j - half, y + i - half)]]

\* handleMouseMove over a canvas pixel: nothing happens before the first
\* readback; else the grid is built from the engine's current dimensions
\* and the readback of the last renderLoop, and becomes probeData.
DoMouseMove ==
  \E x \in 0 .. eng.canvas.w - 1, y \in 0 .. eng.canvas.h - 1 :
    /\ rp = Idle
    /\ pixelsRef # NoPixels
    /\ lab' = [op |-> "probe", done |-> TRUE, x |-> x, y |-> y,
               w |-> eng.width, h |-> eng.height, pixels |-> pixelsRef,
               out |-> ProbePixels(pixelsRef, eng.width, eng.height, x, y)]
    /\ UNCHANGED appVars

\* ------------------------------------- getProgram on a failing GL context
\* Deepest nesting of getProgram calls the JavaScript stack holds; the call
\* beyond it throws RangeError.
MaxCallDepth == 3

\* A GL context: whether VERTEX_SHADER compiles on it, and the fragment
\* texts that compile and link on it (a lost context compiles nothing).
Contexts ==
  {[vertex |-> v, fragments |-> f] :
     v \in BOOLEAN,
     f \in {{PASSTHROUGH_FRAGMENT, DEFAULT_CUSTOM_SHADER}, {DEFAULT_CUSTOM_SHADER}, {}}}

\* createShader x 2 and linkProgram inside the try block: TRUE when nothing
\* is thrown.
TryCompileAndLink(gl, fsSource) == gl.vertex /\ fsSource \in gl.fragments

\* getProgram(fsSource) at call depth depth, cached being the keys of
\* programCache: the outcome of the call, the number of compile attempts it
\* made, and the keys of the cache afterwards.  The recursive call stands in
\* the catch block, so what it throws leaves getProgram.
RECURSIVE GetProgramOn(_, _, _, _)
GetProgramOn(gl, cached, fsSource, depth) ==
  IF depth > MaxCallDepth
  THEN [kind |-> "RangeError", fs |-> "", attempts |-> 0, cached |-> cached]
  ELSE IF fsSource \in cached
  THEN [kind |-> "program", fs |-> fsSource, attempts |-> 0, cached |-> cached]
  ELSE IF TryCompileAndLink(gl, fsSource)
  THEN [kind |-> "program", fs |-> fsSource, attempts |-> 1,
        cached |-> cached \cup {fsSource}]
  ELSE LET fb == GetProgramOn(gl, cached, PASSTHROUGH_FRAGMENT, depth + 1) IN
       [fb EXCEPT !.attempts = @ + 1]

GetProgramJobs ==
  {Job("getProgram", [gl |-> gl, cached |-> c], src) :
     gl \in Contexts, c \in {{}, {PASSTHROUGH_FRAGMENT}},
     src \in {PASSTHROUGH_FRAGMENT, DEFAULT_CUSTOM_SHADER, BROKEN_SHADER}}

LabGetProgram ==
  /\ lab.op = "getProgram"
  /\ ~lab.done
  /\ lab' = [op |-> lab.op, img |-> lab.img, arg |-> lab.arg, done |-> TRUE,
             out |-> GetProgramOn(lab.img.gl, lab.img.cached, lab.arg, 1)]
  /\ UNCHANGED appVars

\* ------------------------------------------- KERNEL_FRAGMENT, texel by texel
\* TEXTURE_WRAP_S / TEXTURE_WRAP_T = CLAMP_TO_EDGE: a sample at the centre of
\* a texel position outside 0 .. n - 1 reads the nearest edge texel.
ClampToEdge(c, n) == IF c < 0 THEN 0 ELSE IF c >= n THEN n - 1 ELSE c

\* Channel ch of colorSum for the fragment whose v_texCoord is the centre of
\* texel (sx, sy) of u_image: tap t of u_kernel is taken at offset
\* (t % 3 - 1, t \div 3 - 1).
KernelFragmentSum(image, matrix, sx, sy, ch) ==
  SumTo([t \in 0 .. 8 |->
           At(image.data,
              (ClampToEdge(sy + (t \div 3) - 1, image.height) * image.width
                 + ClampToEdge(sx + (t % 3) - 1, image.width)) * 4 + ch)
             * matrix[t + 1]], 9)

\* The texels a KERNEL stage writes for u_image, each at the position of the
\* texel its fragment samples: vec4((colorSum / u_kernelWeight).rgb, 1.0)
\* stored as RGBA8.
KernelStage(image, matrix, kernelWeight) ==
  ImageData(image.width, image.height,
    [k \in 1 .. image.width * image.height * 4 |->
       LET ch == (k - 1) % 4
           sx == ((k - 1) \div 4) % image.width
           sy == ((k - 1) \div 4) \div image.width
       IN IF ch = 3 THEN 255
          ELSE ToUint8Clamped(KernelFragmentSum(image, matrix, sx, sy, ch),
                              kernelWeight)])

\* Both paths on one image and one preset whose matrix is its own vertical
\* mirror, with the weight the preset select gives the stage.
KernelStageJobs ==
  {Job("kernelStage", img, name) :
     img \in DotImages \cup {Uniform(w, h, Colour(c)) : w \in Sides, h \in Sides,
                                                       c \in 1 .. NumColours},
     name \in {"identity", "gaussianBlur3"}}

LabKernelStage ==
  /\ lab.op = "kernelStage"
  /\ ~lab.done
  /\ lab' = [op |-> lab.op, img |-> lab.img, arg |-> lab.arg, done |-> TRUE,
             out |-> [gpu |-> KernelStage(lab.img, KERNELS(lab.arg).matrix,
                                          KernelWeightOf(lab.arg)),
                      cpu |-> Convolve(lab.img, KERNELS(lab.arg))]]
  /\ UNCHANGED appVars

\* ---------------------------------------------------------- applyColorSpace
\* outVal of the HSV branch for one pixel, as the fraction num / den the
\* code's arithmetic denotes (rNorm = r / 255 and so on, so 255 * (gNorm -
\* bNorm) is g - b): the hue is computed from the channel differences as
\* they are, the saturation is d / max and the value is max.
HsvOutVal(px, channel) ==
  LET r == px[1]
      g == px[2]
      b == px[3]
      max == MaxOf({r, g, b})
      min == MinOf({r, g, b})
  IN CASE channel = "HSV_HUE" ->
            IF max = min THEN [num |-> 0, den |-> 1]
            ELSE IF max = r
            THEN [num |-> (g - b) + (IF g < b THEN 6 * 255 ELSE 0), den |-> 6]
            ELSE IF max = g THEN [num |-> (b - r) + 2 * 255, den |-> 6]
            ELSE [num |-> (r - g) + 4 * 255, den |-> 6]
       [] channel = "HSV_SAT" ->
            IF max = 0 THEN [num |-> 0, den |-> 1]
            ELSE [num |-> 255 * (max - min), den |-> max]
       [] channel = "HSV_VAL" -> [num |-> max, den |-> 1]

\* applyColorSpace(source, channel) for the RGB and the three HSV channels
\* (the GRAYSCALE branch is not modelled).
ApplyColorSpace(source, channel) ==
  IF channel = "RGB" THEN source
  ELSE ImageData(source.width, source.height,
         [k \in 1 .. Len(source.data) |->
            IF (k - 1) % 4 = 3 THEN 255
            ELSE LET v == HsvOutVal(PixelAt(source.data, (k - 1) \div 4), channel)
                 IN ToUint8Clamped(v.num, v.den)])

HueColours ==
  {<< 255, 0, 0, 255 >>, << 255, 128, 0, 255 >>, << 200, 100, 50, 255 >>,
   << 100, 200, 50, 255 >>, << 50, 100, 200, 255 >>, << 200, 50, 100, 255 >>,
   << 128, 128, 128, 255 >>, << 0, 0, 0, 255 >>, << 0, 255, 0, 255 >>,
   << 255, 0, 128, 255 >>}

ColorSpaceJobs ==
  {Job("colorSpace", ImageData(2, 1, a \o b), channel) :
     a \in HueColours, b \in HueColours,
     channel \in {"RGB", "HSV_HUE", "HSV_SAT", "HSV_VAL"}}

LabApplyColorSpace ==
  /\ lab.op = "colorSpace"
  /\ ~lab.done
  /\ lab' = [op |-> lab.op, img |-> lab.img, arg |-> lab.arg, done |-> TRUE,
             out |-> ApplyColorSpace(lab.img, lab.arg)]
  /\ UNCHANGED appVars

\* ------------------------------------ uniforms of a Motion Heatmap stage
\* A Motion Heatmap node as renderPipeline can be handed one: its
\* motionThreshold is configured with a value (in hundredths), or absent.
MotionUniformJobs ==
  {Job("motionUniform",
       FilterNode(MotionHeatmapId, "MOTION_HEATMAP", TRUE, "", 0, "", 0, 0, "",
                  IF c.configured THEN c.value ELSE 0),
       c) :
     c \in {[configured |-> TRUE, value |-> th] : th \in {0, 1, 5, 50, 100}}
             \cup {[configured |-> FALSE, value |-> 0]}}

\* gl.uniform1f(motionThresholdLoc, ...) of the stage's draw.
LabMotionUniform ==
  /\ lab.op = "motionUniform"
  /\ ~lab.done
  /\ lab' = [op |-> lab.op, img |-> lab.img, arg |-> lab.arg, done |-> TRUE,
             out |-> NodeUniforms(lab.img).n]
  /\ UNCHANGED appVars

\* ---------------------------------------------------------- specifications
\* App v4 (part_001), one animation frame per step.
Next ==
  \/ Edit(4)
  \/ DoUpload(4)
  \/ ImageOnLoad
  \/ Tick(4)

Spec == Init /\ [][Next]_vars

\* App v3 (part_002), one animation frame per step.
NextV3 ==
  \/ Edit(3)
  \/ DoUpload(3)
  \/ DoToggleWebcam(3)
  \/ ImageOnLoad
  \/ Tick(3)

SpecV3 == Init /\ [][NextV3]_vars

\* A requested animation frame is pending and no callback is running: what
\* ENABLED Tick(v) amounts to.  A Tick step removes the head of raf.
TickEnabled == rp = Idle /\ raf # << >>

\* App v3 with the browser's scheduling: a requested animation frame is
\* run and a started image load completes; the user owes no further event.
\* The first conjunct is WF_vars(Tick(3)) written out with TickEnabled.
FairSpecV3 ==
  /\ SpecV3
  /\ ([]<>(~TickEnabled) \/ []<><<Tick(3)>>_vars)
  /\ WF_vars(ImageOnLoad)

\* App v4 with editor events allowed between the stages of one call.
NextSnapshot ==
  \/ Edit(4)
  \/ DoUpload(4)
  \/ ImageOnLoad
  \/ TickBegin(4)
  \/ TickStage
  \/ TickEnd

SnapshotSpec == Init /\ [][NextSnapshot]_vars

\* App v4 with the pixel probe.
NextProbe == Next \/ DoMouseMove
ProbeSpec == Init /\ [][NextProbe]_vars

\* The image routines, each evaluated once on a drawn input.
LabJobs == GetPixelsJobs \cup MotionJobs \cup ConvolveJobs \cup MorphologyJobs
             \cup BitPlaneJobs \cup HistogramJobs \cup GetProgramJobs
             \cup KernelStageJobs \cup ColorSpaceJobs \cup MotionUniformJobs

LabInit == InitApp /\ lab \in LabJobs

LabNext ==
  \/ LabGetPixels
  \/ LabMotion
  \/ LabConvolve
  \/ LabMorphology
  \/ LabSliceBitPlane
  \/ LabComputeHistogram
  \/ LabGetProgram
  \/ LabKernelStage
  \/ LabApplyColorSpace
  \/ LabMotionUniform

LabSpec == LabInit /\ [][LabNext]_vars

\* ================================================================== claims
\* The draws of the last renderPipeline call that came from pipeline stages.
StageDraws == SelectSeq(last.draws, LAMBDA d : d.kind = "stage")
MotionDraws == SelectSeq(StageDraws, LAMBDA d : d.program = MOTION_HEATMAP_FRAGMENT)
ActiveIndices(p) == {i \in 1 .. Len(p) : p[i].active}
Upright(frame) == [frame |-> frame, hist |-> << >>]

\* C1: in every renderPipeline call from the second on, the previous-raw
\* frame a Motion Heatmap stage samples is the raw frame of the call before,
\* not the frame of this call (one call of lag).
C1_MotionReadsPreviousTickFrame ==
  last.ticks >= 2 =>
    \A i \in 1 .. Len(MotionDraws) : MotionDraws[i].prev.frame = last.prevFrame

\* A second call with a motion stage whose raw frame differs from the first
\* call's frame.
C1_Witness ==
  /\ last.ticks >= 2
  /\ Len(MotionDraws) >= 1
  /\ last.frame # last.prevFrame

\* C2: on every reachable engine, for every pipeline position, rendering
\* the pipeline with that stage switched off issues the same stage draws
\* (program, uniforms, textures read, texture written, contents) and leaves
\* the same engine, canvas and readback as rendering it with that stage
\* removed.
DrawOf(d) == [kind |-> d.kind, program |-> d.program, reads |-> d.reads,
              dest |-> d.dest, input |-> d.input, prev |-> d.prev,
              uniforms |-> d.uniforms, output |-> d.output]
DrawsOf(log) == [i \in 1 .. Len(log) |-> DrawOf(log[i])]
SwitchedOff(p, i) == [p EXCEPT ![i].active = FALSE]
Without(p, i) == SubSeq(p, 1, i - 1) \o SubSeq(p, i + 1, Len(p))

C2_DisabledEqualsRemoved ==
  \A i \in 1 .. Len(pipeline) :
    LET off == RenderPipeline(eng, SwitchedOff(pipeline, i))
        gone == RenderPipeline(eng, Without(pipeline, i))
    IN /\ DrawsOf(off.log) = DrawsOf(gone.log)
       /\ off.eng = gone.eng
       /\ GetPixels(off.eng) = GetPixels(gone.eng)

\* A call ran on a loaded frame with a switched-off stage ahead of an
\* active one.
C2_Witness ==
  /\ last.ticks >= 1
  /\ last.frame # 0
  /\ \E i, j \in 1 .. Len(last.pipeline) :
       i < j /\ ~last.pipeline[i].active /\ last.pipeline[j].active
  /\ Len(StageDraws) = Cardinality(ActiveIndices(last.pipeline))

\* C3: after a call on a pipeline that is empty or all switched off, no
\* stage was drawn, the canvas shows the loaded frame upright and the
\* readback is the loaded frame, top row first.
C3_EmptyPipelineIsIdentity ==
  (last.ticks >= 1 /\ last.frame # 0 /\ ActiveIndices(last.pipeline) = {}) =>
    /\ StageDraws = << >>
    /\ last.draws[Len(last.draws)].kind = "present"
    /\ FlipData(last.draws[Len(last.draws)].output) = Upright(last.frame)
    /\ pixelsRef.data = Upright(last.frame)

\* A call ran on a loaded frame with a non-empty pipeline whose stages are
\* all switched off.
C3_Witness ==
  /\ last.ticks >= 1
  /\ last.frame # 0
  /\ last.pipeline # << >>
  /\ ActiveIndices(last.pipeline) = {}
  /\ pixelsRef.data = Upright(last.frame)

\* C4: no draw of a call (the two opening copies, the stages, the present)
\* samples the texture it writes.
C4_NeverReadsOwnDestination ==
  \A i \in 1 .. Len(last.draws) : last.draws[i].dest \notin last.draws[i].reads

\* A call that drew at least two stages, so both ping-pong textures were
\* written and read.
C4_Witness ==
  /\ Len(StageDraws) >= 2
  /\ \E i \in 1 .. Len(StageDraws) : StageDraws[i].dest = "pp0"

\* C5: when the program of an active custom stage fails to compile or link,
\* every active stage is still drawn, in pipeline order, the call ends with
\* the present, and the failed stage writes exactly what it read.
FailedIndices(p) ==
  {i \in ActiveIndices(p) : p[i].type = "CUSTOM_GLSL" /\ ~Compiles(SelectShader(p[i]))}

C5_FailedStageIsIdentity ==
  (last.ticks >= 1 /\ FailedIndices(last.pipeline) # {}) =>
    /\ {StageDraws[i].idx : i \in 1 .. Len(StageDraws)} = ActiveIndices(last.pipeline)
    /\ \A i, j \in 1 .. Len(StageDraws) : i < j => StageDraws[i].idx < StageDraws[j].idx
    /\ last.draws[Len(last.draws)].kind = "present"
    /\ \A i \in 1 .. Len(StageDraws) :
         StageDraws[i].idx \in FailedIndices(last.pipeline) =>
           StageDraws[i].output = StageDraws[i].input

\* The part of C5 that does not depend on the orientation of a pass.
C5_Witness ==
  /\ last.ticks >= 1
  /\ last.frame # 0
  /\ FailedIndices(last.pipeline) # {}
  /\ Cardinality(ActiveIndices(last.pipeline)) >= 2
  /\ {StageDraws[i].idx : i \in 1 .. Len(StageDraws)} = ActiveIndices(last.pipeline)

\* C6: every entry of the program cache is keyed by the source its program
\* was built from, and that program linked; a source that failed is not in
\* the cache.
C6_CacheHoldsLinkedPrograms ==
  \A src \in DOMAIN eng.programCache :
    /\ eng.programCache[src].fs = src
    /\ eng.programCache[src].linked
    /\ Compiles(src)

\* A call ran with an active custom stage whose source fails, and left a
\* cache with the pass-through program but without that source.
C6_Witness ==
  /\ last.ticks >= 1
  /\ FailedIndices(last.pipeline) # {}
  /\ PASSTHROUGH_FRAGMENT \in DOMAIN eng.programCache
  /\ BROKEN_SHADER \notin DOMAIN eng.programCache

\* C7: while a renderPipeline call is in flight, the array it iterates is
\* the array it was called with, whatever the editor did meanwhile, and
\* what it has drawn so far is what that array's prefix draws on the engine
\* the call started on.
C7_PipelineIsSnapshot ==
  rp.pc = "stages" =>
    /\ rp.pipeline = rp.snapshot
    /\ LET r == ForEachStage(BeginRender(rp.start),
                             SubSeq(rp.snapshot, 1, rp.idx - 1), 1)
       IN r.log = rp.log /\ r.eng = eng /\ r.cur = rp.cur

\* A call in flight, past its first stage with stages left, while the
\* editor's pipeline already differs from the array being iterated.
C7_Witness ==
  /\ rp.pc = "stages"
  /\ rp.idx >= 2
  /\ rp.idx <= Len(rp.pipeline)
  /\ pipeline # rp.snapshot

\* C8: every renderPipeline call of the render loop runs on a source
\* texture that was allocated by a resize to non-zero dimensions and loaded
\* since, and a call whose renderLoop is in webcam mode loaded a frame
\* itself.
C8_LoadPrecedesRender ==
  last.ticks >= 1 =>
    /\ last.allocated
    /\ last.frame # 0
    /\ last.webcam => last.loaded

\* A call of the render loop ran on an engine that was never resized and
\* whose source texture was never loaded.
C8_Witness ==
  /\ last.ticks >= 1
  /\ ~last.allocated
  /\ last.frame = 0

\* C9: on every reachable engine, resize to the current dimensions returns
\* the engine unchanged; resize to other dimensions sets width and height
\* and gives all four textures fresh storage of that size.
Dims == 0 .. 3

C9_ResizeIdempotentOrReallocates ==
  \A w \in Dims, h \in Dims :
    LET r == Resize(eng, w, h) IN
      IF w = eng.width /\ h = eng.height
      THEN r = eng
      ELSE /\ r.width = w
           /\ r.height = h
           /\ \A t \in TexNames : r.tex[t] = [w |-> w, h |-> h, data |-> Blank]
           /\ r.programCache = eng.programCache

\* An image of the engine's size was loaded after a call on another frame:
\* the resize in onload kept the previous-raw-frame content.
C9_Witness ==
  /\ eng.width > 0
  /\ eng.tex["prevRaw"].data.frame # 0
  /\ eng.tex["source"].data.frame # 0
  /\ eng.tex["source"].data.frame # eng.tex["prevRaw"].data.frame

\* C10: a kernel stage whose matrix does not have the 3 x 3 = 9 weights of
\* the convolution program, or a bit-plane stage whose plane is outside
\* 1..8, is not drawn.
InvalidParams(node) ==
  \/ node.type = "KERNEL" /\ node.active /\ KernelLength(node.kernelMatrix) # 9
  \/ node.type = "BIT_PLANE" /\ node.active /\ node.bitPlane \notin 1 .. 8

C10_InvalidStageNotDrawn ==
  \A i \in 1 .. Len(StageDraws) : ~InvalidParams(last.pipeline[StageDraws[i].idx])

\* A call ran on a pipeline holding the 5 x 5 preset.
C10_Witness ==
  /\ last.ticks >= 1
  /\ \E i \in 1 .. Len(last.pipeline) : InvalidParams(last.pipeline[i])

\* C11: getPixels returns w * h * 4 bytes; row r of the result is row
\* h - 1 - r of the readback with its bytes in order, so every readback row
\* appears once and flipping the result again gives the readback.
C11_GetPixelsFlipsRows ==
  (lab.op = "getPixels" /\ lab.done) =>
    LET w == lab.img.width
        h == lab.img.height
    IN /\ Len(lab.out) = w * h * 4
       /\ \A r \in 0 .. h - 1, c \in 0 .. w * 4 - 1 :
            At(lab.out, r * w * 4 + c) = At(lab.img.data, (h - 1 - r) * w * 4 + c)
       /\ FlipRows(lab.out, w, h) = lab.img.data

\* A readback of three rows, two pixels wide, whose rows differ and whose
\* flip differs from it.
C11_Witness ==
  /\ lab.op = "getPixels"
  /\ lab.done
  /\ lab.img.height = 3
  /\ lab.img.width = 2
  /\ lab.out # lab.img.data

\* C12: when a call and the call before it ran on the same frame and a
\* Motion Heatmap stage reads that raw frame as its current input, the
\* stage writes exactly what it read, whatever its threshold.
C12_IdenticalFramesNoHighlight ==
  (last.ticks >= 2 /\ last.frame # 0 /\ last.frame = last.prevFrame) =>
    \A i \in 1 .. Len(MotionDraws) :
      MotionDraws[i].input = Upright(last.frame) =>
        MotionDraws[i].output = MotionDraws[i].input

\* Such a stage ran and did not blend: it wrote the frame it read, only
\* mirrored by the vertex shader.
C12_Witness ==
  /\ last.ticks >= 2
  /\ last.frame # 0
  /\ last.frame = last.prevFrame
  /\ \E i \in 1 .. Len(MotionDraws) :
       /\ MotionDraws[i].input = Upright(last.frame)
       /\ MotionDraws[i].output = FlipData(MotionDraws[i].input)

\* The fragment program itself: equal texels are never blended.
C12_EqualTexelsNotBlended ==
  (lab.op = "motion" /\ lab.done /\ lab.img[1] = lab.img[2]) =>
    lab.out = [mix |-> FALSE, px |-> lab.img[1]]

\* Whether every pixel of an image has the same four bytes.
IsUniform(img) ==
  \A k \in 1 .. Len(img.data) : img.data[k] = img.data[((k - 1) % 4) + 1]

\* C13: convolve of a one-colour image with a normalized blur kernel
\* (Gaussian 3 x 3 or 5 x 5) gives that colour back at every pixel, within
\* rounding (each of R, G, B off by at most 1).
C13_BlurKeepsUniformColour ==
  (lab.op = "convolve" /\ lab.done /\ lab.arg \in {"gaussianBlur3", "gaussianBlur5"}
     /\ IsUniform(lab.img)) =>
    \A k \in 1 .. Len(lab.out.data) :
      (k - 1) % 4 # 3 => Abs(lab.out.data[k] - lab.img.data[k]) <= 1

\* A white 3 x 3 image blurred with the 3 x 3 Gaussian: the centre pixel,
\* whose nine taps all fall inside, keeps its colour.
C13_Witness ==
  /\ lab.op = "convolve"
  /\ lab.done
  /\ lab.arg = "gaussianBlur3"
  /\ lab.img = Uniform(3, 3, Colour(2))
  /\ At(lab.out.data, 16) = 255

\* C14 as stated: convolve with the identity kernel returns the input
\* image, every byte of every pixel.
C14_IdentityReproducesInput ==
  (lab.op = "convolve" /\ lab.done /\ lab.arg = "identity") => lab.out = lab.img

\* C14, amended: convolve with the identity kernel returns an image of the
\* same size whose R, G and B equal the input's at every pixel and whose
\* alpha is 255; it is the input itself when the input is opaque.
C14_IdentityReproducesColour ==
  (lab.op = "convolve" /\ lab.done /\ lab.arg = "identity") =>
    /\ lab.out.width = lab.img.width
    /\ lab.out.height = lab.img.height
    /\ Len(lab.out.data) = Len(lab.img.data)
    /\ \A k \in 1 .. Len(lab.img.data) :
         lab.out.data[k] = IF (k - 1) % 4 = 3 THEN 255 ELSE lab.img.data[k]
    /\ (\A k \in 1 .. Len(lab.img.data) : (k - 1) % 4 = 3 => lab.img.data[k] = 255)
         => lab.out = lab.img

\* An opaque 3 x 3 image of two colours, so with an interior pixel and
\* border pixels that differ, went through the identity kernel.
C14_Witness ==
  /\ lab.op = "convolve"
  /\ lab.done
  /\ lab.arg = "identity"
  /\ lab.img.width = 3
  /\ lab.img.height = 3
  /\ ~IsUniform(lab.img)
  /\ lab.out = lab.img

\* Pixels of an image with a non-zero R, G or B.
BrightPixels(img) ==
  {p \in 0 .. img.width * img.height - 1 :
     \E ch \in 0 .. 2 : At(img.data, p * 4 + ch) # 0}
AllBlack(img) == BrightPixels(img) = {}

\* C15 as stated: erosion with any radius >= 1 of an image of any size with
\* a single bright pixel on black is all black, and dilation of an
\* all-black image is all black.
C15_ErosionRemovesSinglePixel ==
  (lab.op = "morphology" /\ lab.done) =>
    /\ (lab.arg[1] = "EROSION" /\ Cardinality(BrightPixels(lab.img)) = 1)
         => AllBlack(lab.out)
    /\ (lab.arg[1] = "DILATION" /\ AllBlack(lab.img)) => AllBlack(lab.out)

\* C15, amended: the erosion part holds for every image of at least two
\* pixels; the dilation part as stated.
C15_ErosionRemovesPixelOnAField ==
  (lab.op = "morphology" /\ lab.done) =>
    /\ (lab.arg[1] = "EROSION" /\ Cardinality(BrightPixels(lab.img)) = 1
          /\ lab.img.width * lab.img.height >= 2)
         => AllBlack(lab.out)
    /\ (lab.arg[1] = "DILATION" /\ AllBlack(lab.img)) => AllBlack(lab.out)

\* A 3 x 3 image whose only bright pixel is the centre was eroded to black.
C15_Witness ==
  /\ lab.op = "morphology"
  /\ lab.done
  /\ lab.arg[1] = "EROSION"
  /\ lab.img.width = 3
  /\ lab.img.height = 3
  /\ BrightPixels(lab.img) = {4}
  /\ AllBlack(lab.out)

\* C16: sliceBitPlane with bit 8 writes (255,255,255,255) for every pixel
\* whose luma 0.299 R + 0.587 G + 0.114 B is at least 128 and (0,0,0,255)
\* for every pixel whose luma is below 128.
C16_BitEightSplitsAtLuma128 ==
  (lab.op = "bitPlane" /\ lab.done /\ lab.arg = 8) =>
    \A p \in 0 .. lab.img.width * lab.img.height - 1 :
      PixelAt(lab.out.data, p) =
        IF Gray1000(PixelAt(lab.img.data, p)) >= 128000
        THEN << 255, 255, 255, 255 >> ELSE << 0, 0, 0, 255 >>

\* Bit 8 of a pixel of luma 128.299 next to one of luma 124.2: white and
\* black.
C16_Witness ==
  /\ lab.op = "bitPlane"
  /\ lab.done
  /\ lab.arg = 8
  /\ lab.img.data = << 129, 128, 128, 255, 200, 100, 50, 255 >>
  /\ lab.out.data = << 255, 255, 255, 255, 0, 0, 0, 255 >>

\* The sum of the bins lo .. hi of a histogram.
RECURSIVE SumBins(_, _, _)
SumBins(h, lo, hi) ==
  IF lo > hi THEN 0
  ELSE IF lo = hi THEN h[lo]
  ELSE LET mid == (lo + hi) \div 2 IN SumBins(h, lo, mid) + SumBins(h, mid + 1, hi)

\* The pixels of an image whose channel ch (1..3), or rounded luma (4), is v.
PixelsWith(img, ch, v) ==
  {p \in 0 .. img.width * img.height - 1 :
     LET px == PixelAt(img.data, p) IN
       (IF ch = 4 THEN RoundGray(px) ELSE px[ch]) = v}

\* C17: for an image of N pixels each of the four histograms sums to N, bin
\* v of a histogram counts the pixels whose channel value (rounded luma for
\* l) is v, max is the largest bin of the four, and for a one-colour image
\* (10,20,30): r[10] = g[20] = b[30] = max = N.
C17_HistogramCountsPixels ==
  (lab.op = "histogram" /\ lab.done) =>
    LET n == lab.img.width * lab.img.height
        hs == << lab.out.r, lab.out.g, lab.out.b, lab.out.l >>
    IN /\ \A ch \in 1 .. 4 : SumBins(hs[ch], 0, 255) = n
       /\ \A ch \in 1 .. 4, v \in Bins :
            hs[ch][v] = Cardinality(PixelsWith(lab.img, ch, v))
       /\ (\E ch \in 1 .. 4, v \in Bins : lab.out.max = hs[ch][v])
       /\ \A ch \in 1 .. 4, v \in Bins : lab.out.max >= hs[ch][v]
       /\ (IsUniform(lab.img) /\ PixelAt(lab.img.data, 0) \in
             {Opaque102030, Translucent102030})
            => /\ lab.out.r[10] = n
               /\ lab.out.g[20] = n
               /\ lab.out.b[30] = n
               /\ lab.out.max = n

\* The histogram of a 3 x 3 image of colour (10,20,30).
C17_Witness ==
  /\ lab.op = "histogram"
  /\ lab.done
  /\ lab.img = Uniform(3, 3, Opaque102030)
  /\ lab.out.r[10] = 9
  /\ lab.out.l[18] = 9
  /\ lab.out.max = 9

\* C18: the probe grid is a full PROBE_SIZE x PROBE_SIZE grid; a cell whose
\* coordinate is outside the image (the engine's width x height) is the zero
\* pixel and a cell inside it is the pixel the readback has at that
\* coordinate.
C18_ProbeGridMatchesReadback ==
  lab.op = "probe" =>
    LET half == PROBE_SIZE \div 2 IN
      /\ DOMAIN lab.out = 0 .. PROBE_SIZE - 1
      /\ \A i \in 0 .. PROBE_SIZE - 1 :
           /\ DOMAIN lab.out[i] = 0 .. PROBE_SIZE - 1
           /\ \A j \in 0 .. PROBE_SIZE - 1 :
                LET px == lab.x + j - half
                    py == lab.y + i - half
                IN IF px >= 0 /\ px < lab.w /\ py >= 0 /\ py < lab.h
                   THEN lab.out[i][j] = Texel(lab.pixels, px, py)
                   ELSE lab.out[i][j] = ZeroPixel

\* A probe at the top-left corner of a readback of the engine's size: the
\* cell under the pointer is the readback's pixel (0,0), and the cells left
\* of and above it are zero pixels.
C18_Witness ==
  /\ lab.op = "probe"
  /\ lab.x = 0
  /\ lab.y = 0
  /\ lab.w = lab.pixels.w
  /\ lab.h = lab.pixels.h
  /\ lab.out[5][5] = Texel(lab.pixels, 0, 0)
  /\ lab.out[0][0] = ZeroPixel
  /\ lab.out[5][4] = ZeroPixel

\* What goes wrong: the probe ran after a larger image was loaded and before
\* any readback of it, and a cell inside the image is undefined.
C18_StaleReadbackProbed ==
  /\ lab.op = "probe"
  /\ lab.h > lab.pixels.h
  /\ \E i \in 0 .. PROBE_SIZE - 1, j \in 0 .. PROBE_SIZE - 1 :
       lab.out[i][j] = UndefinedPixel

\* A stage draw that writes the texel it sampled: the pass-through program
\* (also the fallback of a custom source that failed) or the convolution
\* with the identity kernel.
IdentityDraw(d) ==
  \/ d.program = PASSTHROUGH_FRAGMENT
  \/ d.program = KERNEL_FRAGMENT /\ d.uniforms.k = "identity" /\ d.uniforms.n = 1

\* The last call drew every active stage of its pipeline, each a per-pixel
\* identity, on a loaded frame.
IdentityPipelineRan ==
  /\ last.ticks >= 1
  /\ last.frame # 0
  /\ Len(StageDraws) = Cardinality(ActiveIndices(last.pipeline))
  /\ \A i \in 1 .. Len(StageDraws) : IdentityDraw(StageDraws[i])

\* C19: after a call whose k >= 0 active stages are all per-pixel
\* identities, the readback is the loaded frame with its rows in the frame's
\* top-to-bottom order, whatever k is.
C19_IdentityPipelineKeepsFrame ==
  (IdentityPipelineRan /\ pixelsRef # NoPixels) =>
    pixelsRef.data = Upright(last.frame)

\* Two identity stages ran and the readback is the upright frame.
C19_Witness ==
  /\ IdentityPipelineRan
  /\ Len(StageDraws) = 2
  /\ pixelsRef.data = Upright(last.frame)

\* What goes wrong: one identity stage ran and the readback is the frame
\* upside down.
C19_OddPassesUpsideDown ==
  /\ IdentityPipelineRan
  /\ Len(StageDraws) = 1
  /\ pixelsRef.data = FlipData(Upright(last.frame))

\* C20: a source that failed to compile or link in an earlier getProgram
\* call is not compiled again: neither in a later renderPipeline call nor
\* by a later draw of the same call.
C20_FailedSourceCompiledOnce ==
  /\ \A i \in 1 .. Len(last.draws) :
       last.draws[i].compiled \cap last.failedBefore = {}
  /\ \A i \in 1 .. Len(last.draws), j \in 1 .. Len(last.draws) :
       i < j => last.draws[i].compiled \cap last.draws[j].compiled
                  \cap FailedIn(last.draws) = {}

\* A stage whose custom source had failed in an earlier call was drawn
\* again, with the pass-through program as its fallback.
C20_Witness ==
  \E i \in 1 .. Len(StageDraws) :
    LET node == last.pipeline[StageDraws[i].idx] IN
      /\ node.type = "CUSTOM_GLSL"
      /\ node.customSource \in last.failedBefore
      /\ StageDraws[i].program = PASSTHROUGH_FRAGMENT

\* C21: getProgram returns a program for every source text, the identity
\* program when the requested one fails, after at most two compile
\* attempts, also when the identity fragment shader or the vertex shader
\* fails.
C21_GetProgramTerminatesWithIdentity ==
  (lab.op = "getProgram" /\ lab.done) =>
    /\ lab.out.kind = "program"
    /\ lab.out.attempts <= 2
    /\ (lab.arg \notin lab.img.cached /\ ~TryCompileAndLink(lab.img.gl, lab.arg))
         => lab.out.fs = PASSTHROUGH_FRAGMENT

\* A failing source on a context where the identity program links: the
\* identity program after two attempts.
C21_Witness ==
  /\ lab.op = "getProgram"
  /\ lab.done
  /\ lab.arg = BROKEN_SHADER
  /\ lab.img.cached = {}
  /\ lab.out.kind = "program"
  /\ lab.out.fs = PASSTHROUGH_FRAGMENT
  /\ lab.out.attempts = 2

\* What goes wrong: the identity program itself cannot be built and is not
\* cached; every call fails and calls getProgram again until the stack is
\* exhausted.
C21_FallbackRecursesForever ==
  /\ lab.op = "getProgram"
  /\ lab.done
  /\ PASSTHROUGH_FRAGMENT \notin lab.img.cached
  /\ ~TryCompileAndLink(lab.img.gl, PASSTHROUGH_FRAGMENT)
  /\ lab.out.kind = "RangeError"
  /\ lab.out.attempts = MaxCallDepth

\* C22: while the webcam is active, a pipeline that no renderPipeline call
\* has run yet is run by some later call (unless the webcam is switched off
\* first): the loop neither stops nor keeps running the pipeline of before
\* the edit.
C22_EditedPipelineReachesLoop ==
  (isWebcamActive /\ last.pipeline # pipeline)
    ~> (~isWebcamActive \/ last.pipeline = pipeline)

\* The webcam is active, the pipeline was edited after the last call, and
\* no animation frame is pending.
C22_Witness ==
  /\ isWebcamActive
  /\ last.ticks >= 1
  /\ last.pipeline # pipeline
  /\ raf = << >>

\* What goes wrong: no renderLoop that captured isWebcamActive = true is
\* ever requested, so nothing re-requests itself.
C22_WebcamLoopNeverRequested ==
  \A i \in 1 .. Len(raf) : ~raf[i].webcam

\* C23: in every renderPipeline call the previous-raw-frame texture is the
\* destination of exactly one draw, the copy of the source that opens the
\* call, ahead of every stage draw; no stage draw writes it, and the only
\* draws that read it are the stage draws of the motion program.
C23_PrevRawWrittenOnceFirst ==
  last.ticks >= 1 =>
    /\ Cardinality({i \in 1 .. Len(last.draws) : last.draws[i].dest = "prevRaw"}) = 1
    /\ last.draws[1].kind = "copy"
    /\ last.draws[1].dest = "prevRaw"
    /\ last.draws[1].reads = {"source"}
    /\ \A i \in 1 .. Len(last.draws) :
         /\ last.draws[i].kind = "stage" => (i > 1 /\ last.draws[i].dest # "prevRaw")
         /\ "prevRaw" \in last.draws[i].reads =>
              /\ last.draws[i].kind = "stage"
              /\ last.draws[i].program = MOTION_HEATMAP_FRAGMENT
              /\ last.pipeline[last.draws[i].idx].type = "MOTION_HEATMAP"

\* A call on a loaded frame that drew a motion stage and another stage.
C23_Witness ==
  /\ last.ticks >= 1
  /\ last.allocated
  /\ Len(MotionDraws) >= 1
  /\ Len(StageDraws) >= 2
  /\ "prevRaw" \in MotionDraws[1].reads

\* C24: toggleNodeActive(id) on the current pipeline changes one stage only,
\* the one with that id, and of it only the active flag; the sequence of
\* ids is kept; a second toggle of the same id gives the pipeline back; and
\* renderPipeline draws the active stages of the toggled pipeline in
\* pipeline order.
C24_ToggleFlipsOnlyActive ==
  \A id \in NodeIds(pipeline) :
    LET t == ToggleNodeActive(pipeline, id)
        sd == SelectSeq(RenderPipeline(eng, t).log, LAMBDA d : d.kind = "stage")
    IN /\ Len(t) = Len(pipeline)
       /\ \A i \in 1 .. Len(pipeline) :
            /\ t[i].id = pipeline[i].id
            /\ pipeline[i].id # id => t[i] = pipeline[i]
            /\ pipeline[i].id = id =>
                 /\ t[i].active = ~pipeline[i].active
                 /\ [t[i] EXCEPT !.active = pipeline[i].active] = pipeline[i]
       /\ Cardinality({i \in 1 .. Len(pipeline) : t[i] # pipeline[i]}) = 1
       /\ ToggleNodeActive(t, id) = pipeline
       /\ {sd[a].idx : a \in 1 .. Len(sd)} = ActiveIndices(t)
       /\ \A a \in 1 .. Len(sd), b \in 1 .. Len(sd) : a < b => sd[a].idx < sd[b].idx

\* A stage was switched off (stages are created active) ahead of another
\* stage; the next toggle of it re-enables it in first position.
C24_Witness ==
  /\ Len(pipeline) >= 2
  /\ ~pipeline[1].active
  /\ pipeline[2].active
  /\ ToggleNodeActive(pipeline, pipeline[1].id)[1].active

\* C25: for a 3 x 3 kernel the KERNEL stage of the engine and convolve
\* compute the same value at every pixel of the frame, border pixels
\* included.
C25_GpuAndCpuAgreeAtBorders ==
  (lab.op = "kernelStage" /\ lab.done) => lab.out.gpu = lab.out.cpu

\* The two paths agree at the centre of a 3 x 3 image under the Gaussian
\* blur, where every tap is inside the image.
C25_Witness ==
  /\ lab.op = "kernelStage"
  /\ lab.done
  /\ lab.arg = "gaussianBlur3"
  /\ lab.img.width = 3
  /\ lab.img.height = 3
  /\ ~IsUniform(lab.img)
  /\ PixelAt(lab.out.gpu.data, 4) = PixelAt(lab.out.cpu.data, 4)
  /\ PixelAt(lab.out.gpu.data, 4) # << 0, 0, 0, 255 >>

\* What goes wrong: at a corner of a white image the engine reads the edge
\* texel for the five taps outside and keeps 255; convolve drops them and
\* gets 9/16 of 255.
C25_CornerDiffers ==
  /\ lab.op = "kernelStage"
  /\ lab.done
  /\ lab.arg = "gaussianBlur3"
  /\ lab.img = Uniform(3, 3, Colour(2))
  /\ PixelAt(lab.out.gpu.data, 0) = << 255, 255, 255, 255 >>
  /\ PixelAt(lab.out.cpu.data, 0) = << 143, 143, 143, 255 >>

\* 255 * h for the HSV hue h in [0, 1) of a pixel, as a fraction: with
\* d = max - min, h = (((g - b) / d) mod 6) / 6 when the maximum is r,
\* ((b - r) / d + 2) / 6 when it is g, ((r - g) / d + 4) / 6 when it is b,
\* and 0 when d = 0.
StandardHue255(px) ==
  LET r == px[1]
      g == px[2]
      b == px[3]
      max == MaxOf({r, g, b})
      d == max - MinOf({r, g, b})
  IN IF d = 0 THEN [num |-> 0, den |-> 1]
     ELSE IF max = r
     THEN [num |-> 255 * ((g - b) + (IF g < b THEN 6 * d ELSE 0)), den |-> 6 * d]
     ELSE IF max = g THEN [num |-> 255 * ((b - r) + 2 * d), den |-> 6 * d]
     ELSE [num |-> 255 * ((r - g) + 4 * d), den |-> 6 * d]

\* C26: with the hue channel, applyColorSpace writes 255 * h, h the
\* standard HSV hue of the pixel, to R, G and B of every pixel.
C26_HueIsStandardHue ==
  (lab.op = "colorSpace" /\ lab.done /\ lab.arg = "HSV_HUE") =>
    \A p \in 0 .. lab.img.width * lab.img.height - 1 :
      LET h == StandardHue255(PixelAt(lab.img.data, p))
          byte == ToUint8Clamped(h.num, h.den)
      IN PixelAt(lab.out.data, p) = << byte, byte, byte, 255 >>

\* The hue of (255,128,0), whose largest and smallest channels are 255 and
\* 0: 255 * h = 21.33 in the code as in the formula.
C26_Witness ==
  /\ lab.op = "colorSpace"
  /\ lab.done
  /\ lab.arg = "HSV_HUE"
  /\ PixelAt(lab.img.data, 0) = << 255, 128, 0, 255 >>
  /\ PixelAt(lab.out.data, 0) = << 21, 21, 21, 255 >>

\* What goes wrong: for (200,100,50) the code gives 255 * (50/255) / 6 = 8,
\* the hue formula 255 * (50/150) / 6 = 14.
C26_HueNotDividedByRange ==
  /\ lab.op = "colorSpace"
  /\ lab.done
  /\ lab.arg = "HSV_HUE"
  /\ PixelAt(lab.img.data, 0) = << 200, 100, 50, 255 >>
  /\ PixelAt(lab.out.data, 0) = << 8, 8, 8, 255 >>
  /\ ToUint8Clamped(StandardHue255(<< 200, 100, 50, 255 >>).num,
                    StandardHue255(<< 200, 100, 50, 255 >>).den) = 14

\* C27: u_motionThreshold of a Motion Heatmap stage's draw is the stage's
\* configured motionThreshold, 0 included; DEFAULT_MOTION_THRESHOLD is used
\* only when the stage has none.
C27_ThresholdIsConfiguredValue ==
  (lab.op = "motionUniform" /\ lab.done) =>
    lab.out = (IF lab.arg.configured THEN lab.arg.value
               ELSE DEFAULT_MOTION_THRESHOLD)

\* A configured threshold of 0.5 is bound as it is, and a stage without one
\* gets the default.
C27_Witness ==
  /\ lab.op = "motionUniform"
  /\ lab.done
  /\ \/ lab.arg.configured /\ lab.arg.value = 50 /\ lab.out = 50
     \/ ~lab.arg.configured /\ lab.out = DEFAULT_MOTION_THRESHOLD

\* What goes wrong: a configured threshold of 0 is bound as the default.
C27_ZeroBecomesDefault ==
  /\ lab.op = "motionUniform"
  /\ lab.done
  /\ lab.arg.configured
  /\ lab.arg.value = 0
  /\ lab.out = DEFAULT_MOTION_THRESHOLD

\* C28: whenever the probe handler reads the cached readback, the array has
\* the engine's current width and height, and every index
\* (py * w + px) * 4 + 3 it reads for a cell inside the bounds is below the
\* array's length.
C28_ProbeReadsInsideReadback ==
  lab.op = "probe" =>
    LET half == PROBE_SIZE \div 2 IN
      /\ lab.pixels.w = lab.w
      /\ lab.pixels.h = lab.h
      /\ \A i \in 0 .. PROBE_SIZE - 1, j \in 0 .. PROBE_SIZE - 1 :
           LET px == lab.x + j - half
               py == lab.y + i - half
           IN (px >= 0 /\ px < lab.w /\ py >= 0 /\ py < lab.h) =>
                (py * lab.w + px) * 4 + 3 < lab.pixels.w * lab.pixels.h * 4

\* A probe at the bottom-right pixel of a readback of the engine's size: the
\* largest index read is the last byte of the array.
C28_Witness ==
  /\ lab.op = "probe"
  /\ lab.pixels.w = lab.w
  /\ lab.pixels.h = lab.h
  /\ lab.x = lab.w - 1
  /\ lab.y = lab.h - 1
  /\ lab.h >= 2
  /\ (lab.y * lab.w + lab.x) * 4 + 3 = lab.pixels.w * lab.pixels.h * 4 - 1
  /\ lab.out[5][5] = Texel(lab.pixels, lab.x, lab.y)

\* What goes wrong: an image load resized the engine to more rows after the
\* last readback, and the probe read past the end of the array.
C28_ResizedAfterReadback ==
  /\ lab.op = "probe"
  /\ lab.pixels.w = lab.w
  /\ lab.pixels.h < lab.h
  /\ (lab.y * lab.w + lab.x) * 4 + 3 >= lab.pixels.w * lab.pixels.h * 4
  /\ lab.out[5][5] = UndefinedPixel

\* ---------------------------------------------------------------- C29
\* C29: every Convolution stage of a pipeline that reaches renderPipeline
\* carries a kernel of exactly nine weights, whatever nodes were added,
\* presets selected and custom-kernel weights edited before.
C29_KernelStagesCarryNineWeights ==
  last.ticks >= 1 =>
    \A i \in 1 .. Len(last.pipeline) :
      last.pipeline[i].type = "KERNEL" =>
        KernelLength(last.pipeline[i].kernelMatrix) = 9

\* A call whose pipeline holds a Convolution stage set by the custom-kernel
\* lab (nine weights, weight 1).
C29_Witness ==
  /\ last.ticks >= 1
  /\ \E i \in 1 .. Len(last.pipeline) :
       /\ last.pipeline[i].type = "KERNEL"
       /\ last.pipeline[i].kernelMatrix = "customGrid"
       /\ last.pipeline[i].kernelWeight = 1
       /\ KernelLength(last.pipeline[i].kernelMatrix) = 9

\* A call whose pipeline holds an active Convolution stage with the 25
\* weights of the 'Gaussian Blur 5x5' preset.
C29_PresetOf25WeightsRendered ==
  /\ last.ticks >= 1
  /\ \E i \in 1 .. Len(last.pipeline) :
       /\ last.pipeline[i].type = "KERNEL"
       /\ last.pipeline[i].active
       /\ KernelLength(last.pipeline[i].kernelMatrix) = 25

\* ---------------------------------------------------------------- C30
MotionStages(p) == {i \in 1 .. Len(p) : p[i].type = "MOTION_HEATMAP"}

\* C30: once the effects of an edit have run, the pipeline holds exactly one
\* Motion Heatmap stage when the Motion Heatmap toggle is on and none when
\* it is off, whatever toggles, removals, resets and additions came before.
C30_MotionStageFollowsToggle ==
  Cardinality(MotionStages(pipeline)) = (IF motionHeatmapEnabled THEN 1 ELSE 0)

\* The toggle is on, a node was added after it, and the pipeline holds the
\* one Motion Heatmap stage the effect appended.
C30_Witness ==
  /\ motionHeatmapEnabled
  /\ nextId > 1
  /\ Cardinality(MotionStages(pipeline)) = 1
  /\ \E i \in MotionStages(pipeline) :
       /\ pipeline[i].id = MotionHeatmapId
       /\ i < Len(pipeline)

\* The toggle is on and the pipeline holds no Motion Heatmap stage.
C30_ToggleOnWithoutStage ==
  /\ motionHeatmapEnabled
  /\ MotionStages(pipeline) = {}

====
